---- MODULE Spec2Model ----
(***************************************************************************)
(* The plan ledger of researcher-zero: the <PLAN> codec and the            *)
(* upsert/remove engine of core/skills/plan/scripts/plan_tool.py, the      *)
(* tool wrappers of core/skills/plan/service.py and the status lifecycle   *)
(* of core/services/learn/plan.py.                                         *)
(*                                                                         *)
(* A text is a sequence of tokens.  The markers "<PLAN>" and "</PLAN>",    *)
(* the three fixed pieces of an item line ("- [", "][", "] "), a status    *)
(* word and a decimal id are one token each; every other token is one      *)
(* character of a title (a letter, a space " " or a line break "\n").      *)
(*                                                                         *)
(* The file manager of core/skills/file_manage/scripts: the edit-block     *)
(* parser and the search/replace strategies of edit_blocks.py, the         *)
(* workspace guard of workspace.py and the create, edit and                *)
(* apply-edit-blocks operations of create.py, editor.py and service.py.    *)
(* There a text is a sequence of characters, each a string of length one   *)
(* (the backquote is written Backquote), a resolved path is the sequence   *)
(* of its parts below "/", and the file system is the function files from  *)
(* the resolved paths of the files to their contents together with the     *)
(* set dirs of the directories.                                            *)
(*                                                                         *)
(* The learn graph of core/services/learn/graph.py with the react          *)
(* subgraph of learn/react.py: learn holds the LearnState, the node the    *)
(* graph is at and the tool call the think model chose; the plan file of   *)
(* the workspace is the pair plan_exists, plan_text.  The answers of the   *)
(* chat models (tool calls, summaries) are inputs drawn from small sets.   *)
(***************************************************************************)
EXTENDS Integers, Sequences, FiniteSets, TLC

\* ---------------------------------------------------------------- bounds
\* The longest ledger a mutation may leave behind.
MaxItems == 3
\* The longest upsert payload and the longest id list of a remove.
MaxPayload == 2
MaxRemove == 2
\* The longest ledger a remove is tried on.
MaxLedger == 5
\* LearnConfig of the learn graph: the longest plan plan_task accepts and the
\* think/act turns of one subtask.
max_plan_steps == 2
max_react_turns_per_subtask == 3

\* ------------------------------------------------------------- constants
VALID_STATUS == {"todo", "doing", "done", "aborted"}

NL == "\n"
SP == " "
Whitespace == {SP, NL}
PlanOpen == "<PLAN>"
PlanClose == "</PLAN>"
ItemHead == "- ["
ItemMid == "]["
ItemTail == "] "

\* str(n) and int(s) on the decimal spellings the model uses.
DigitStr == [n \in 0..9 |-> CASE n = 0 -> "0" [] n = 1 -> "1" [] n = 2 -> "2"
                              [] n = 3 -> "3" [] n = 4 -> "4" [] n = 5 -> "5"
                              [] n = 6 -> "6" [] n = 7 -> "7" [] n = 8 -> "8"
                              [] OTHER -> "9"]

IntToStr(n) == DigitStr[n]

\* str.isdigit(): every character is a decimal digit.
IsDigit(s) == s \in {DigitStr[n] : n \in 0..9} \cup {"00"}

\* int(s) of a digit string: leading zeros are dropped.
StrToInt(s) == IF s = "00" THEN 0 ELSE CHOOSE n \in 0..9 : DigitStr[n] = s

\* ------------------------------------------------------------ text tools
RECURSIVE LStrip(_)
LStrip(s) == IF s # <<>> /\ Head(s) \in Whitespace THEN LStrip(Tail(s)) ELSE s

RECURSIVE RStrip(_)
RStrip(s) ==
    IF s # <<>> /\ s[Len(s)] \in Whitespace
    THEN RStrip(SubSeq(s, 1, Len(s) - 1))
    ELSE s

\* str.strip()
Strip(s) == RStrip(LStrip(s))

\* The first position >= from at which tok stands in s, 0 if none.
RECURSIVE IndexFrom(_, _, _)
IndexFrom(s, tok, from) ==
    IF from > Len(s) THEN 0
    ELSE IF s[from] = tok THEN from
    ELSE IndexFrom(s, tok, from + 1)

\* str.splitlines() of a text that neither starts nor ends with a line break.
RECURSIVE SplitLines(_)
SplitLines(s) ==
    LET k == IndexFrom(s, NL, 1)
    IN IF k = 0 THEN <<s>>
       ELSE <<SubSeq(s, 1, k - 1)>> \o SplitLines(SubSeq(s, k + 1, Len(s)))

\* "\n".join(lines)
RECURSIVE JoinLines(_)
JoinLines(lines) ==
    IF lines = <<>> THEN <<>>
    ELSE IF Len(lines) = 1 THEN lines[1]
    ELSE lines[1] \o <<NL>> \o JoinLines(Tail(lines))

\* PLAN_RE.search(text): the body between the first "<PLAN>" and the first
\* "</PLAN>" after it, the white space on both sides of the body left out.
PlanBody(text) ==
    LET o == IndexFrom(text, PlanOpen, 1)
        c == IF o = 0 THEN 0 ELSE IndexFrom(text, PlanClose, o + 1)
    IN IF o = 0 \/ c = 0
       THEN [found |-> FALSE, body |-> <<>>]
       ELSE [found |-> TRUE, body |-> Strip(SubSeq(text, o + 1, c - 1))]

\* ITEM_RE.fullmatch(line): "- [" status "][" digits "] " and at least one
\* more character.
ItemMatch(line) ==
    /\ Len(line) >= 6
    /\ line[1] = ItemHead
    /\ line[2] \in VALID_STATUS
    /\ line[3] = ItemMid
    /\ IsDigit(line[4])
    /\ line[5] = ItemTail
    /\ \A i \in 6..Len(line) : line[i] # NL

\* --------------------------------------------------------------- codec
\* The loop of parse_plan over the body's lines.
RECURSIVE ParseLines(_, _, _)
ParseLines(lines, expected_id, items) ==
    IF lines = <<>> THEN [ok |-> TRUE, items |-> items]
    ELSE LET line == Strip(Head(lines))
         IN IF line = <<>> THEN ParseLines(Tail(lines), expected_id, items)
            ELSE IF ~ItemMatch(line) THEN [ok |-> FALSE, items |-> <<>>]
            ELSE IF StrToInt(line[4]) # expected_id
                 THEN [ok |-> FALSE, items |-> <<>>]
            ELSE LET title == Strip(SubSeq(line, 6, Len(line)))
                 IN IF title = <<>> THEN [ok |-> FALSE, items |-> <<>>]
                    ELSE ParseLines(Tail(lines), expected_id + 1,
                             Append(items, [status |-> line[2], title |-> title]))

parse_plan(text) ==
    LET m == PlanBody(text)
    IN IF ~m.found THEN [ok |-> FALSE, items |-> <<>>]
       ELSE IF m.body = <<>> THEN [ok |-> TRUE, items |-> <<>>]
       ELSE ParseLines(SplitLines(m.body), 1, <<>>)

\* One line of render_plan_block: "- [{status}][{idx}] {title}".
RenderLine(idx, item) ==
    <<ItemHead, item.status, ItemMid, IntToStr(idx), ItemTail>> \o Strip(item.title)

render_plan_block(items) ==
    IF items = <<>> THEN [ok |-> TRUE, text |-> <<PlanOpen, NL, PlanClose>>]
    ELSE IF \E i \in 1..Len(items) :
                items[i].status \notin VALID_STATUS \/ Strip(items[i].title) = <<>>
    THEN [ok |-> FALSE, text |-> <<>>]
    ELSE [ok |-> TRUE,
          text |-> <<PlanOpen, NL>>
                   \o JoinLines([i \in 1..Len(items) |-> RenderLine(i, items[i])])
                   \o <<NL, PlanClose>>]

\* ------------------------------------------------------- upsert payload
\* _is_positive_int(value)
_is_positive_int(value) == value > 0

\* The loop of _parse_items_json over the payload's entries: an entry is
\* [has_id, id, status, title], has_id telling whether it carries an id.
RECURSIVE ParseEntries(_, _, _)
ParseEntries(payload, seen_ids, normalized) ==
    IF payload = <<>> THEN [err |-> "", updates |-> normalized]
    ELSE LET raw == Head(payload)
         IN IF raw.status \notin VALID_STATUS
            THEN [err |-> "validation", updates |-> <<>>]
            ELSE IF Strip(raw.title) = <<>>
            THEN [err |-> "validation", updates |-> <<>>]
            ELSE IF raw.has_id /\ ~_is_positive_int(raw.id)
            THEN [err |-> "validation", updates |-> <<>>]
            ELSE IF raw.has_id /\ raw.id \in seen_ids
            THEN [err |-> "conflict", updates |-> <<>>]
            ELSE ParseEntries(Tail(payload),
                     IF raw.has_id THEN seen_ids \cup {raw.id} ELSE seen_ids,
                     Append(normalized,
                            [has_id |-> raw.has_id, id |-> raw.id,
                             status |-> raw.status, title |-> Strip(raw.title)]))

\* _parse_items_json without its seen_ids check.
RECURSIVE ParseEntriesNoSeen(_, _)
ParseEntriesNoSeen(payload, normalized) ==
    IF payload = <<>> THEN [err |-> "", updates |-> normalized]
    ELSE LET raw == Head(payload)
         IN IF \/ raw.status \notin VALID_STATUS
               \/ Strip(raw.title) = <<>>
               \/ raw.has_id /\ ~_is_positive_int(raw.id)
            THEN [err |-> "validation", updates |-> <<>>]
            ELSE ParseEntriesNoSeen(Tail(payload),
                     Append(normalized,
                            [has_id |-> raw.has_id, id |-> raw.id,
                             status |-> raw.status, title |-> Strip(raw.title)]))

parse_items_json_no_seen(payload) ==
    IF payload = <<>> THEN [err |-> "validation", updates |-> <<>>]
    ELSE ParseEntriesNoSeen(payload, <<>>)

_parse_items_json(payload) ==
    IF payload = <<>> THEN [err |-> "validation", updates |-> <<>>]
    ELSE ParseEntries(payload, {}, <<>>)

\* ------------------------------------------------------- upsert / remove
RECURSIVE ApplyUpdates(_, _)
ApplyUpdates(result, updates) ==
    IF updates = <<>> THEN [err |-> "", items |-> result]
    ELSE LET update == Head(updates)
             item == [status |-> update.status, title |-> update.title]
         IN IF ~update.has_id
            THEN ApplyUpdates(Append(result, item), Tail(updates))
            ELSE IF update.id > Len(result)
            THEN [err |-> "range", items |-> <<>>]
            ELSE ApplyUpdates([result EXCEPT ![update.id] = item], Tail(updates))

\* upsert_items with a check of the status-transition table put in front.
upsert_items_checking_edges(plan, updates) ==
    IF \E k \in 1..Len(updates) :
          /\ updates[k].has_id
          /\ updates[k].id <= Len(plan)
          /\ <<plan[updates[k].id].status, updates[k].status>>
                \notin {<<"todo", "doing">>, <<"doing", "done">>, <<"doing", "aborted">>}
    THEN [err |-> "transition", items |-> <<>>]
    ELSE ApplyUpdates(plan, updates)

upsert_items(plan, updates) == ApplyUpdates(plan, updates)

\* The loop of _parse_remove_ids over the non-empty parts of the id list.
RECURSIVE ParseIdParts(_, _, _)
ParseIdParts(parts, seen, ids) ==
    IF parts = <<>> THEN [err |-> "", ids |-> ids]
    ELSE LET raw == Head(parts)
         IN IF ~IsDigit(raw) \/ raw = "0"
            THEN [err |-> "validation", ids |-> <<>>]
            ELSE IF StrToInt(raw) \in seen
            THEN [err |-> "conflict", ids |-> <<>>]
            ELSE ParseIdParts(Tail(parts), seen \cup {StrToInt(raw)},
                              Append(ids, StrToInt(raw)))

_parse_remove_ids(parts) ==
    IF parts = <<>> THEN [err |-> "validation", ids |-> <<>>]
    ELSE ParseIdParts(parts, {}, <<>>)

\* del result[index] with Python's list indexing: index -1 is the last
\* element, an index outside the list raises IndexError.
DelIndex(result, index) ==
    LET pos == IF index < 0 THEN Len(result) + index + 1 ELSE index + 1
    IN IF pos < 1 \/ pos > Len(result)
       THEN [err |-> "index_error", items |-> <<>>]
       ELSE [err |-> "",
             items |-> SubSeq(result, 1, pos - 1) \o SubSeq(result, pos + 1, Len(result))]

SetMax(S) == CHOOSE m \in S : \A x \in S : x <= m

\* for value in sorted(ids, reverse=True): del result[value - 1]
RECURSIVE DeleteDescending(_, _)
DeleteDescending(result, values) ==
    IF values = {} THEN [err |-> "", items |-> result]
    ELSE LET value == SetMax(values)
             d == DelIndex(result, value - 1)
         IN IF d.err # "" THEN d
            ELSE DeleteDescending(d.items, values \ {value})

\* remove_items deleting in the order the ids are listed, not highest first.
RECURSIVE DeleteInListedOrder(_, _)
DeleteInListedOrder(result, ids) ==
    IF ids = <<>> THEN [err |-> "", items |-> result]
    ELSE LET d == DelIndex(result, Head(ids) - 1)
         IN IF d.err # "" THEN d ELSE DeleteInListedOrder(d.items, Tail(ids))

remove_items_in_listed_order(plan, ids) ==
    IF \E i \in 1..Len(ids) : ids[i] > Len(plan)
    THEN [err |-> "range", items |-> <<>>]
    ELSE DeleteInListedOrder(plan, ids)

\* remove_items passing over the ids that are out of range.
remove_items_skipping_out_of_range(plan, ids) ==
    DeleteDescending(plan, {ids[i] : i \in 1..Len(ids)} \cap 1..Len(plan))

remove_items(plan, ids) ==
    IF \E i \in 1..Len(ids) : ids[i] > Len(plan)
    THEN [err |-> "range", items |-> <<>>]
    ELSE DeleteDescending(plan, {ids[i] : i \in 1..Len(ids)})

\* ---------------------------------------------------- mutate_plan_file
EmptyLedgerText == <<PlanOpen, NL, PlanClose, NL>>

\* path.write_text(f"{output}\n"): the text a mutation persists.
FileText(output) == output \o <<NL>>

\* The result of a call that raised before it wrote anything.
Failed(kind) ==
    [outcome |-> kind, write |-> FALSE, text |-> <<>>, items |-> <<>>, output |-> <<>>]

\* What mutate_plan_file computes from the file (exists, text) and its
\* arguments: the outcome, whether and what it writes to the file, the item
\* list it renders and the block it returns.
\* has_items / has_ids tell whether items_json / ids_csv is given.
mutate_plan_file(exists, text, op, has_items, payload, has_ids, parts) ==
    LET original == IF exists THEN text ELSE EmptyLedgerText
        current == parse_plan(original)
        computed ==
            IF op = "upsert"
            THEN IF ~has_items \/ has_ids THEN [err |-> "usage", items |-> <<>>]
                 ELSE LET p == _parse_items_json(payload)
                      IN IF p.err # "" THEN [err |-> p.err, items |-> <<>>]
                         ELSE upsert_items(current.items, p.updates)
            ELSE IF op = "remove"
            THEN IF ~has_ids \/ has_items THEN [err |-> "usage", items |-> <<>>]
                 ELSE LET p == _parse_remove_ids(parts)
                      IN IF p.err # "" THEN [err |-> p.err, items |-> <<>>]
                         ELSE remove_items(current.items, p.ids)
            ELSE [err |-> "usage", items |-> <<>>]
    IN IF ~current.ok THEN Failed("format")
       ELSE IF computed.err # "" THEN Failed(computed.err)
       ELSE LET output == render_plan_block(computed.items)
            IN IF ~output.ok THEN Failed("format")
               ELSE [outcome |-> "ok", write |-> TRUE, text |-> FileText(output.text),
                     items |-> computed.items, output |-> output.text]

\* ------------------------------------------------------------- service
\* _validate_upsert_todos_payload without its status check.
validate_upsert_todos_any_status(payload) ==
    IF payload = <<>> THEN "validation"
    ELSE IF \E i \in 1..Len(payload) :
                payload[i].has_id \/ Strip(payload[i].title) = <<>>
    THEN "validation"
    ELSE ""

\* _validate_upsert_todos_payload: "" when the payload passes.
_validate_upsert_todos_payload(payload) ==
    IF payload = <<>> THEN "validation"
    ELSE IF \E i \in 1..Len(payload) :
                \/ payload[i].has_id
                \/ payload[i].status # "todo"
                \/ Strip(payload[i].title) = <<>>
    THEN "validation"
    ELSE ""

\* _validate_remove_ids: "" when the id list passes.
_validate_remove_ids(parts) == _parse_remove_ids(parts).err

_upsert_todos(exists, text, payload) ==
    IF _validate_upsert_todos_payload(payload) # ""
    THEN Failed(_validate_upsert_todos_payload(payload))
    ELSE mutate_plan_file(exists, text, "upsert", TRUE, payload, FALSE, <<>>)

_remove_ids(exists, text, parts) ==
    IF _validate_remove_ids(parts) # ""
    THEN Failed(_validate_remove_ids(parts))
    ELSE mutate_plan_file(exists, text, "remove", FALSE, <<>>, TRUE, parts)

\* ------------------------------------------------- learn/plan.py lifecycle
\* STATUS_TRANSITIONS with todo allowed to skip doing.
STATUS_TRANSITIONS_skipping_doing ==
    [s \in VALID_STATUS |->
        CASE s = "todo" -> {"doing", "done"}
          [] s = "doing" -> {"done", "aborted"}
          [] OTHER -> {}]

STATUS_TRANSITIONS ==
    [s \in VALID_STATUS |->
        CASE s = "todo" -> {"doing"}
          [] s = "doing" -> {"done", "aborted"}
          [] OTHER -> {}]

\* The loop of parse_plan_items over the body's lines (PLAN_LINE_RE is
\* ITEM_RE); the items are PlanItem(id, title, status).
RECURSIVE ParseItemLines(_, _, _)
ParseItemLines(lines, expected_id, items) ==
    IF lines = <<>> THEN [ok |-> TRUE, items |-> items]
    ELSE LET line == Strip(Head(lines))
         IN IF line = <<>> THEN ParseItemLines(Tail(lines), expected_id, items)
            ELSE IF ~ItemMatch(line) THEN [ok |-> FALSE, items |-> <<>>]
            ELSE IF StrToInt(line[4]) # expected_id
                 THEN [ok |-> FALSE, items |-> <<>>]
            ELSE LET normalized_title == Strip(SubSeq(line, 6, Len(line)))
                 IN IF normalized_title = <<>> THEN [ok |-> FALSE, items |-> <<>>]
                    ELSE ParseItemLines(Tail(lines), expected_id + 1,
                             Append(items, [id |-> StrToInt(line[4]),
                                            title |-> normalized_title,
                                            status |-> line[2]]))

parse_plan_items(plan_text_in) ==
    LET m == PlanBody(plan_text_in)
    IN IF ~m.found THEN [ok |-> FALSE, items |-> <<>>]
       ELSE IF m.body = <<>> THEN [ok |-> TRUE, items |-> <<>>]
       ELSE ParseItemLines(SplitLines(m.body), 1, <<>>)

\* _find_item: "" when plan_items[item_id - 1] exists.
_find_item(plan_items, item_id) ==
    IF item_id <= 0 THEN "validation"
    ELSE IF item_id > Len(plan_items) THEN "range"
    ELSE ""

transition_plan_item_status(exists, text, item_id, to_status) ==
    IF ~exists THEN Failed("io")
    ELSE LET current == parse_plan_items(text)
         IN IF ~current.ok THEN Failed("format")
            ELSE IF _find_item(current.items, item_id) # ""
            THEN Failed(_find_item(current.items, item_id))
            ELSE IF to_status \notin STATUS_TRANSITIONS[current.items[item_id].status]
            THEN Failed("transition")
            ELSE LET payload == <<[has_id |-> TRUE, id |-> item_id,
                                   status |-> to_status,
                                   title |-> current.items[item_id].title]>>
                     m == mutate_plan_file(exists, text, "upsert", TRUE, payload,
                                           FALSE, <<>>)
                     updated == parse_plan_items(m.output)
                 IN IF m.outcome # "ok" THEN m
                    ELSE IF ~updated.ok THEN [m EXCEPT !.outcome = "format"]
                    ELSE IF updated.items[item_id].status # to_status
                    THEN [m EXCEPT !.outcome = "runtime"]
                    ELSE m

\* ---------------------------------------------------------------- inputs
\* Titles a caller may send: plain, padded (stripped to the plain one), with
\* a line break inside, blank, and ending in the closing marker.
TitlePlain == <<"a">>
TitlePadded == <<SP, "a", SP>>
TitleBreak == <<"a", NL, "b">>
TitleBlank == <<SP>>
TitleClose == <<"a", SP, PlanClose>>

NoId == [has_id |-> FALSE, id |-> 0]
WithId(i) == [has_id |-> TRUE, id |-> i]
Entry(idc, status, title) ==
    [has_id |-> idc.has_id, id |-> idc.id, status |-> status, title |-> title]

\* Entries of a one-entry payload: every id and status, and the odd ones.
SingleEntries ==
    {Entry(idc, st, TitlePlain) :
        idc \in {NoId} \cup {WithId(i) : i \in 1..MaxItems}, st \in VALID_STATUS}
    \cup {Entry(NoId, "todo", TitlePadded), Entry(NoId, "todo", TitleBreak),
          Entry(NoId, "todo", TitleBlank), Entry(NoId, "todo", TitleClose),
          Entry(NoId, "bogus", TitlePlain),
          Entry(WithId(0), "todo", TitlePlain)}

\* Entries of a longer payload.
MultiEntries ==
    {Entry(idc, st, TitlePlain) :
        idc \in {NoId, WithId(1), WithId(2)}, st \in {"todo", "done"}}

SeqsOver(S, lo, hi) == UNION {[1..n -> S] : n \in lo..hi}

Payloads ==
    {<<>>} \cup {<<e>> : e \in SingleEntries} \cup SeqsOver(MultiEntries, 2, MaxPayload)

\* The parts of a comma-separated id list.
IdTokens == {IntToStr(i) : i \in 1..MaxItems} \cup {"0", "00"}
IdLists == SeqsOver(IdTokens, 0, MaxRemove)

\* =====================================================================
\* file_manage: core/skills/file_manage/scripts.  Here a text is a sequence
\* of characters, each a string of length one.
\* =====================================================================
\* ------------------------------------------------------------- strings
\* The character U+0060, which the fence is made of.
Backquote == "backquote"

\* The characters of a word of the model's texts.
Chars(word) ==
    CASE word = "..." -> <<".", ".", ".">>
      [] word = "fence" -> <<Backquote, Backquote, Backquote>>
      [] word = ".py" -> <<".", "p", "y">>
      [] word = "a.py" -> <<"a", ".", "p", "y">>
      [] word = "b.py" -> <<"b", ".", "p", "y">>
      [] word = "n.py" -> <<"n", ".", "p", "y">>
      [] word = "o.py" -> <<"o", ".", "p", "y">>
      [] word = "a.pyx" -> <<"a", ".", "p", "y", "x">>
      [] word = "s/a.py" -> <<"s", "/", "a", ".", "p", "y">>
      [] word = "l/a.py" -> <<"l", "/", "a", ".", "p", "y">>
      [] word = "d/n.py" -> <<"d", "/", "n", ".", "p", "y">>
      [] word = "../o.py" -> <<".", ".", "/", "o", ".", "p", "y">>
      [] word = "/o.py" -> <<"/", "o", ".", "p", "y">>
      [] word = "d/../a.py" -> <<"d", "/", ".", ".", "/", "a", ".", "p", "y">>
      [] word = "d/../../o.py" ->
            <<"d", "/", ".", ".", "/", ".", ".", "/", "o", ".", "p", "y">>
      [] word = "a.py/n.py" -> <<"a", ".", "p", "y", "/", "n", ".", "p", "y">>
      [] word = "/w/a.py" -> <<"/", "w", "/", "a", ".", "p", "y">>
      [] word = "zz" -> <<"z", "z">>
      [] word = " SEARCH" -> <<" ", "S", "E", "A", "R", "C", "H">>
      [] word = " REPLACE" -> <<" ", "R", "E", "P", "L", "A", "C", "E">>
      [] OTHER -> <<word>>

\* n times the character c.
Rep(c, n) == [i \in 1..n |-> c]

Has(s, c) == \E i \in 1..Len(s) : s[i] = c

\* str.startswith, str.endswith
StartsWith(s, p) == Len(s) >= Len(p) /\ SubSeq(s, 1, Len(p)) = p
EndsWith(s, p) == Len(s) >= Len(p) /\ SubSeq(s, Len(s) - Len(p) + 1, Len(s)) = p

\* str.lstrip(chars), str.rstrip(chars), str.strip(chars)
RECURSIVE LStripOf(_, _)
LStripOf(s, C) == IF s # <<>> /\ Head(s) \in C THEN LStripOf(Tail(s), C) ELSE s

RECURSIVE RStripOf(_, _)
RStripOf(s, C) ==
    IF s # <<>> /\ s[Len(s)] \in C THEN RStripOf(SubSeq(s, 1, Len(s) - 1), C) ELSE s

StripOf(s, C) == RStripOf(LStripOf(s, C), C)

\* str.splitlines(keepends=True): every line keeps its line break.
RECURSIVE splitlines_keepends(_)
splitlines_keepends(s) ==
    IF s = <<>> THEN <<>>
    ELSE LET k == IndexFrom(s, NL, 1)
         IN IF k = 0 THEN <<s>>
            ELSE <<SubSeq(s, 1, k)>> \o splitlines_keepends(SubSeq(s, k + 1, Len(s)))

\* str.splitlines()
splitlines(s) ==
    LET kept == splitlines_keepends(s)
    IN [i \in 1..Len(kept) |-> RStripOf(kept[i], {NL})]

\* "".join(lines)
RECURSIVE Concat(_)
Concat(lines) == IF lines = <<>> THEN <<>> ELSE Head(lines) \o Concat(Tail(lines))

\* The code point order of the characters of file names.
Ord(c) ==
    CASE c = "." -> 46 [] c = "/" -> 47 [] c = "a" -> 97 [] c = "b" -> 98
      [] c = "d" -> 100 [] c = "l" -> 108 [] c = "n" -> 110 [] c = "o" -> 111
      [] c = "p" -> 112 [] c = "s" -> 115 [] c = "w" -> 119 [] c = "x" -> 120
      [] c = "y" -> 121 [] c = "z" -> 122 [] OTHER -> 63

\* s < t as Python compares strings.
RECURSIVE StrLess(_, _)
StrLess(s, t) ==
    IF t = <<>> THEN FALSE
    ELSE IF s = <<>> THEN TRUE
    ELSE IF Head(s) = Head(t) THEN StrLess(Tail(s), Tail(t))
    ELSE Ord(Head(s)) < Ord(Head(t))

\* Path(path).name: what follows the last "/".
RECURSIVE PathName(_)
PathName(path) ==
    LET k == IndexFrom(path, "/", 1)
    IN IF k = 0 THEN path ELSE PathName(SubSeq(path, k + 1, Len(path)))

\* --------------------------------------------------------------- difflib
\* How far a[i..] and b[j..] agree.
RECURSIVE CommonRun(_, _, _, _)
CommonRun(a, b, i, j) ==
    IF i > Len(a) \/ j > Len(b) \/ a[i] # b[j] THEN 0
    ELSE 1 + CommonRun(a, b, i + 1, j + 1)

\* SequenceMatcher.find_longest_match: the longest common block, the one
\* starting earliest in a and then earliest in b.
find_longest_match(a, b) ==
    LET Before(p, kp, q, kq) ==
            \/ kp > kq
            \/ kp = kq /\ p[1] < q[1]
            \/ kp = kq /\ p[1] = q[1] /\ p[2] <= q[2]
        Found(best) == [i |-> best[1], j |-> best[2], k |-> CommonRun(a, b, best[1], best[2])]
    IN Found(CHOOSE p \in (1..Len(a)) \X (1..Len(b)) :
                 \A q \in (1..Len(a)) \X (1..Len(b)) :
                     Before(p, CommonRun(a, b, p[1], p[2]), q, CommonRun(a, b, q[1], q[2])))

\* The total size of SequenceMatcher.get_matching_blocks.
RECURSIVE matching_size(_, _)
matching_size(a, b) ==
    IF a = <<>> \/ b = <<>> THEN 0
    ELSE LET Around(m) ==
                 IF m.k = 0 THEN 0
                 ELSE m.k
                      + matching_size(SubSeq(a, 1, m.i - 1), SubSeq(b, 1, m.j - 1))
                      + matching_size(SubSeq(a, m.i + m.k, Len(a)),
                                      SubSeq(b, m.j + m.k, Len(b)))
         IN Around(find_longest_match(a, b))

\* SequenceMatcher.ratio() as the fraction num / den.
ratio(a, b) == [num |-> 2 * matching_size(a, b), den |-> Len(a) + Len(b)]

\* ratio >= 0.8
AtLeastCutoff(r) == 10 * r.num >= 8 * r.den

\* difflib.get_close_matches(word, possibilities, n=1, cutoff=0.8): the
\* possibility of the highest ratio, the greater string among equals; <<>>
\* stands for the empty list.
get_close_matches(word, possibilities) ==
    LET close == {x \in {possibilities[i] : i \in 1..Len(possibilities)} :
                     AtLeastCutoff(ratio(x, word))}
        Ahead(x, rx, y, ry) ==
            \/ rx.num * ry.den > ry.num * rx.den
            \/ rx.num * ry.den = ry.num * rx.den /\ (x = y \/ StrLess(y, x))
        Better(x, y) == Ahead(x, ratio(x, word), y, ratio(y, word))
        Best(found) ==
            IF found = {} THEN <<>>
            ELSE CHOOSE x \in found : \A y \in found : Better(x, y)
    IN Best(close)

\* ------------------------------------------------------- edit_blocks.py
Fence == Chars("fence")
Dots == Chars("...")

\* How many times the character c stands at the head of s.
RECURSIVE LeadingRun(_, _)
LeadingRun(s, c) == IF s # <<>> /\ Head(s) = c THEN 1 + LeadingRun(Tail(s), c) ELSE 0

\* SEARCH_MARK, DIVIDER_MARK and REPLACE_MARK matched against line.strip().
IsSearchMark(line) ==
    LET t == Strip(line)
        n == LeadingRun(t, "<")
        rest == SubSeq(t, n + 1, Len(t))
    IN n \in 5..9 /\ rest \in {Chars(" SEARCH"), Chars(" SEARCH") \o <<">">>}

IsDividerMark(line) ==
    LET t == Strip(line)
    IN LeadingRun(t, "=") \in 5..9 /\ LeadingRun(t, "=") = Len(t)

IsReplaceMark(line) ==
    LET t == Strip(line)
        n == LeadingRun(t, ">")
    IN n \in 5..9 /\ SubSeq(t, n + 1, Len(t)) = Chars(" REPLACE")

\* _normalize_filename: <<>> stands for None.
_normalize_filename(raw) ==
    LET text == Strip(raw)
    IN IF text = <<>> \/ text = Dots THEN <<>>
       ELSE IF StartsWith(text, Fence)
       THEN LET candidate ==
                    IF Has(text, SP)
                    THEN LStrip(SubSeq(text, IndexFrom(text, SP, 1) + 1, Len(text)))
                    ELSE <<>>
            IN IF candidate # <<>>
                  /\ (Has(candidate, ".") \/ Has(candidate, "/") \/ Has(candidate, "\\"))
               THEN candidate
               ELSE <<>>
       ELSE StripOf(StripOf(Strip(LStripOf(RStripOf(text, {":"}), {"#"})), {Backquote}), {"*"})

SetMin(S) == CHOOSE m \in S : \A x \in S : m <= x

\* The loop of _choose_filename over reversed(lines[-3:]), from line k down,
\* while n lines may still be looked at.
RECURSIVE Candidates(_, _, _)
Candidates(lines, k, n) ==
    IF k < 1 \/ n = 0 THEN <<>>
    ELSE LET candidate == _normalize_filename(lines[k])
             here == IF candidate # <<>> THEN <<candidate>> ELSE <<>>
         IN IF ~StartsWith(lines[k], Fence) THEN here
            ELSE here \o Candidates(lines, k - 1, n - 1)

\* _choose_filename: <<>> stands for None.
_choose_filename(lines, valid_files) ==
    LET valid == {valid_files[i] : i \in 1..Len(valid_files)}
        Named(cand) ==
            valid_files[SetMin({i \in 1..Len(valid_files) :
                                   cand = PathName(valid_files[i])})]
        Chosen(candidates, exact, named, close) ==
            IF candidates = <<>> THEN <<>>
            ELSE IF exact # {} THEN candidates[SetMin(exact)]
            ELSE IF named # {} THEN Named(candidates[SetMin(named)])
            ELSE IF close # {}
            THEN get_close_matches(candidates[SetMin(close)], valid_files)
            ELSE candidates[1]
        Choose(candidates) ==
            Chosen(candidates,
                   {c \in 1..Len(candidates) : candidates[c] \in valid},
                   {c \in 1..Len(candidates) :
                       \E v \in valid : candidates[c] = PathName(v)},
                   {c \in 1..Len(candidates) :
                       get_close_matches(candidates[c], valid_files) # <<>>})
    IN Choose(Candidates(lines, Len(lines), 3))

\* Where the inner while loops of parse_edit_blocks stop: the first divider
\* line at or after i, and the first line at or after i that ends a replace
\* section; Len(lines) + 1 if there is none.
FirstDivider(lines, i) ==
    LET hits == {k \in i..Len(lines) : IsDividerMark(lines[k])}
    IN IF hits = {} THEN Len(lines) + 1 ELSE SetMin(hits)

ClosesReplace(line) == IsReplaceMark(line) \/ IsDividerMark(line)

FirstClose(lines, i) ==
    LET hits == {k \in i..Len(lines) : ClosesReplace(lines[k])}
    IN IF hits = {} THEN Len(lines) + 1 ELSE SetMin(hits)

\* The while loop of parse_edit_blocks from line i on: the blocks parsed, and
\* "parse" in err if the text is malformed from there on.
RECURSIVE ScanBlocks(_, _, _, _, _)
ScanBlocks(lines, i, current_filename, blocks, valid_files) ==
    IF i > Len(lines) THEN [err |-> "", blocks |-> blocks]
    ELSE IF ~IsSearchMark(lines[i])
    THEN ScanBlocks(lines, i + 1, current_filename, blocks, valid_files)
    ELSE LET lo == IF i - 3 > 1 THEN i - 3 ELSE 1
             Emit(filename, d, r) ==
                 IF filename = <<>> \/ d > Len(lines) \/ r > Len(lines)
                 THEN [err |-> "parse", blocks |-> blocks]
                 ELSE ScanBlocks(lines, r + 1, filename,
                                 Append(blocks,
                                        [path |-> filename,
                                         search |-> Concat(SubSeq(lines, i + 1, d - 1)),
                                         replace |-> Concat(SubSeq(lines, d + 1, r - 1))]),
                                 valid_files)
             ToClose(filename, d) == Emit(filename, d, FirstClose(lines, d + 1))
             ToDivider(chosen) ==
                 ToClose(IF chosen # <<>> THEN chosen ELSE current_filename,
                         FirstDivider(lines, i + 1))
         IN ToDivider(_choose_filename(SubSeq(lines, lo, i - 1), valid_files))

\* parse_edit_blocks: the blocks of the text, or the parse error.
parse_edit_blocks(text, valid_files) ==
    LET Parsed(scanned) ==
            IF scanned.err # "" THEN [err |-> scanned.err, blocks |-> <<>>] ELSE scanned
    IN Parsed(ScanBlocks(splitlines_keepends(text), 1, <<>>, <<>>, valid_files))

\* _ensure_final_newline
_ensure_final_newline(text) ==
    IF text # <<>> /\ text[Len(text)] # NL THEN Append(text, NL) ELSE text

\* _strip_wrapping; path <<>> stands for no path.
_strip_wrapping(text, path) ==
    IF text = <<>> THEN text
    ELSE LET Unnamed(lines) ==
                 IF lines # <<>> /\ path # <<>>
                    /\ EndsWith(Strip(lines[1]), PathName(path))
                 THEN Tail(lines) ELSE lines
             Unfenced(lines) ==
                 IF Len(lines) >= 2 /\ StartsWith(lines[1], Fence)
                    /\ StartsWith(lines[Len(lines)], Fence)
                 THEN SubSeq(lines, 2, Len(lines) - 1) ELSE lines
         IN _ensure_final_newline(JoinLines(Unfenced(Unnamed(splitlines(text)))))

\* The result of a strategy that declined.
Declined == [found |-> FALSE, text |-> <<>>]

\* _exact_replace splicing at the last window that matches.
exact_replace_at_last_window(whole_lines, search_lines, replace_lines) ==
    LET n == Len(search_lines)
        hits == {idx \in 1..(Len(whole_lines) - n + 1) :
                    SubSeq(whole_lines, idx, idx + n - 1) = search_lines}
    IN IF search_lines = <<>> \/ hits = {} THEN Declined
       ELSE LET idx == SetMax(hits)
            IN [found |-> TRUE,
                text |-> Concat(SubSeq(whole_lines, 1, idx - 1) \o replace_lines
                                \o SubSeq(whole_lines, idx + n, Len(whole_lines)))]

\* _exact_replace
_exact_replace(whole_lines, search_lines, replace_lines) ==
    LET n == Len(search_lines)
        Merged(idx) ==
            [found |-> TRUE,
             text |-> Concat(SubSeq(whole_lines, 1, idx - 1) \o replace_lines
                             \o SubSeq(whole_lines, idx + n, Len(whole_lines)))]
        First(hits) ==
            IF search_lines = <<>> \/ hits = {} THEN Declined ELSE Merged(SetMin(hits))
    IN First({idx \in 1..(Len(whole_lines) - n + 1) :
                 SubSeq(whole_lines, idx, idx + n - 1) = search_lines})

\* s[:k] and s[k:] as Python slices a string, k possibly negative.
SliceTo(s, k) ==
    LET stop == IF k < 0 THEN Len(s) + k ELSE k
    IN IF stop <= 0 THEN <<>> ELSE IF stop >= Len(s) THEN s ELSE SubSeq(s, 1, stop)
SliceFrom(s, k) == IF k >= Len(s) THEN <<>> ELSE SubSeq(s, k + 1, Len(s))

\* len(l) - len(l.lstrip())
Indent(line) == Len(line) - Len(LStrip(line))

\* _indent_flexible_replace
_indent_flexible_replace(whole_lines, search_lines_in, replace_lines_in) ==
    LET Leading(both) ==
            {Indent(both[i]) : i \in {j \in 1..Len(both) : Strip(both[j]) # <<>>}}
        Outdent(leading) ==
            IF leading # {} /\ SetMin(leading) > 0 THEN SetMin(leading) ELSE 0
        Outdented(lines, outdent) ==
            [i \in 1..Len(lines) |->
                IF Strip(lines[i]) # <<>> THEN SliceFrom(lines[i], outdent) ELSE lines[i]]
        Prefixes(search_lines, idx) ==
            {SliceTo(whole_lines[idx + j - 1],
                     Len(whole_lines[idx + j - 1]) - Len(search_lines[j])) :
                j \in {q \in 1..Len(search_lines) : Strip(whole_lines[idx + q - 1]) # <<>>}}
        Patched(replace_lines, prefix) ==
            [i \in 1..Len(replace_lines) |->
                IF Strip(replace_lines[i]) # <<>>
                THEN prefix \o replace_lines[i] ELSE replace_lines[i]]
        Merged(idx, n, patched) ==
            [found |-> TRUE,
             text |-> Concat(SubSeq(whole_lines, 1, idx - 1) \o patched
                             \o SubSeq(whole_lines, idx + n, Len(whole_lines)))]
        At(search_lines, replace_lines, idx) ==
            Merged(idx, Len(search_lines),
                   Patched(replace_lines, CHOOSE p \in Prefixes(search_lines, idx) : TRUE))
        First(search_lines, replace_lines, hits) ==
            IF search_lines_in = <<>> \/ hits = {} THEN Declined
            ELSE At(search_lines, replace_lines, SetMin(hits))
        Scan(search_lines, replace_lines) ==
            First(search_lines, replace_lines,
                  {idx \in 1..(Len(whole_lines) - Len(search_lines) + 1) :
                      /\ \A j \in 1..Len(search_lines) :
                            LStrip(whole_lines[idx + j - 1]) = LStrip(search_lines[j])
                      /\ Cardinality(Prefixes(search_lines, idx)) = 1})
        With(outdent) ==
            Scan(Outdented(search_lines_in, outdent), Outdented(replace_lines_in, outdent))
    IN With(Outdent(Leading(search_lines_in \o replace_lines_in)))

\* Where the separator pattern ^\s*\.\.\.\n matched at the line start p ends,
\* 0 if it does not match there.
DotsEnd(text, p) ==
    LET Blank(rest) == Len(rest) - Len(LStrip(rest))
        From(q) ==
            IF q + 3 <= Len(text) /\ SubSeq(text, q, q + 3) = Append(Dots, NL)
            THEN q + 3 ELSE 0
    IN From(p + Blank(SubSeq(text, p, Len(text))))

\* _split_by_dots: re.split keeps the separators, at the even positions
\* of the result counted from 1.
RECURSIVE _split_by_dots(_)
_split_by_dots(text) ==
    LET Cut(p, e) ==
            <<SubSeq(text, 1, p - 1), SubSeq(text, p, e)>>
            \o _split_by_dots(SubSeq(text, e + 1, Len(text)))
        At(p) == Cut(p, DotsEnd(text, p))
        Split(starts) == IF starts = {} THEN <<text>> ELSE At(SetMin(starts))
    IN Split({p \in 1..Len(text) :
                 (p = 1 \/ text[p - 1] = NL) /\ DotsEnd(text, p) # 0})

\* The first position at or after from where sub stands in s, 0 if none.
FindSub(s, sub, from) ==
    LET hits == {p \in from..(Len(s) - Len(sub) + 1) :
                    SubSeq(s, p, p + Len(sub) - 1) = sub}
    IN IF hits = {} THEN 0 ELSE SetMin(hits)

\* str.count(sub) from position from on, sub not empty.
RECURSIVE CountSub(_, _, _)
CountSub(s, sub, from) ==
    LET p == FindSub(s, sub, from)
    IN IF p = 0 THEN 0 ELSE 1 + CountSub(s, sub, p + Len(sub))

\* The loop of _replace_with_dots replacing the first occurrence of a chunk
\* that occurs more than once.
RECURSIVE replace_chunks_keeping_repeats(_, _, _, _)
replace_chunks_keeping_repeats(updated, search_parts, replace_parts, i) ==
    IF i > Len(search_parts) THEN [found |-> TRUE, text |-> updated]
    ELSE LET src == search_parts[i]
             dst == replace_parts[i]
             Replaced(p) ==
                 SubSeq(updated, 1, p - 1) \o dst
                 \o SubSeq(updated, p + Len(src), Len(updated))
         IN IF src = <<>> /\ dst = <<>>
            THEN replace_chunks_keeping_repeats(updated, search_parts, replace_parts, i + 2)
            ELSE IF src = <<>>
            THEN replace_chunks_keeping_repeats(_ensure_final_newline(updated) \o dst,
                                                search_parts, replace_parts, i + 2)
            ELSE IF CountSub(updated, src, 1) = 0 THEN Declined
            ELSE replace_chunks_keeping_repeats(Replaced(FindSub(updated, src, 1)),
                                                search_parts, replace_parts, i + 2)

\* The loop of _replace_with_dots over the pairs of chunks: chunk k of the
\* search and of the replace parts stands at position 2k - 1.
RECURSIVE ReplaceChunks(_, _, _, _)
ReplaceChunks(updated, search_parts, replace_parts, i) ==
    IF i > Len(search_parts) THEN [found |-> TRUE, text |-> updated]
    ELSE LET src == search_parts[i]
             dst == replace_parts[i]
             Replaced(p) ==
                 SubSeq(updated, 1, p - 1) \o dst
                 \o SubSeq(updated, p + Len(src), Len(updated))
         IN IF src = <<>> /\ dst = <<>>
            THEN ReplaceChunks(updated, search_parts, replace_parts, i + 2)
            ELSE IF src = <<>>
            THEN ReplaceChunks(_ensure_final_newline(updated) \o dst,
                               search_parts, replace_parts, i + 2)
            ELSE IF CountSub(updated, src, 1) # 1 THEN Declined
            ELSE ReplaceChunks(Replaced(FindSub(updated, src, 1)),
                               search_parts, replace_parts, i + 2)

\* _replace_with_dots comparing no separators.
replace_with_dots_ignoring_anchors(whole, search, replace) ==
    LET search_parts == _split_by_dots(search)
        replace_parts == _split_by_dots(replace)
    IN IF Len(search_parts) # Len(replace_parts) \/ Len(search_parts) = 1
       THEN [err |-> "", found |-> FALSE, text |-> <<>>]
       ELSE LET r == ReplaceChunks(whole, search_parts, replace_parts, 1)
            IN [err |-> "", found |-> r.found, text |-> r.text]

\* _replace_with_dots: declines, raises the match error or gives the text.
_replace_with_dots(whole, search, replace) ==
    LET Updated(r) == [err |-> "", found |-> r.found, text |-> r.text]
        Segments(search_parts, replace_parts) ==
            IF Len(search_parts) # Len(replace_parts) \/ Len(search_parts) = 1
            THEN [err |-> "", found |-> FALSE, text |-> <<>>]
            ELSE IF \E i \in 1..Len(search_parts) :
                       i % 2 = 0 /\ search_parts[i] # replace_parts[i]
            THEN [err |-> "match", found |-> FALSE, text |-> <<>>]
            ELSE Updated(ReplaceChunks(whole, search_parts, replace_parts, 1))
    IN Segments(_split_by_dots(search), _split_by_dots(replace))

\* The two strategies apply_search_replace tries on one form of the search
\* lines.
TryLines(whole_lines, candidate, replace_lines) ==
    LET Else(exact) ==
            IF exact.found THEN exact
            ELSE _indent_flexible_replace(whole_lines, candidate, replace_lines)
    IN Else(_exact_replace(whole_lines, candidate, replace_lines))

\* apply_search_replace: the new content, or the match error.
apply_search_replace(content, search_in, replace_in, path) ==
    LET search0 == _strip_wrapping(search_in, path)
        replace0 == _strip_wrapping(replace_in, path)
        whole == _ensure_final_newline(content)
        search == _ensure_final_newline(search0)
        replace == _ensure_final_newline(replace0)
        whole_lines == splitlines_keepends(whole)
        search_lines == splitlines_keepends(search)
        replace_lines == splitlines_keepends(replace)
        FirstOf(first, second, dots) ==
            IF first.found THEN [err |-> "", text |-> first.text]
            ELSE IF second.found THEN [err |-> "", text |-> second.text]
            ELSE IF dots.err # "" THEN [err |-> dots.err, text |-> <<>>]
            ELSE IF dots.found THEN [err |-> "", text |-> dots.text]
            ELSE [err |-> "match", text |-> <<>>]
    IN IF Strip(search0) = <<>> THEN [err |-> "", text |-> content \o replace0]
       ELSE FirstOf(TryLines(whole_lines, search_lines, replace_lines),
                    IF Len(search_lines) > 2 /\ Strip(search_lines[1]) = <<>>
                    THEN TryLines(whole_lines, Tail(search_lines), replace_lines)
                    ELSE Declined,
                    _replace_with_dots(whole, search, replace))

\* --------------------------------------------------------- workspace.py
\* The parts of a path between its "/"s.
RECURSIVE PathParts(_)
PathParts(path) ==
    LET k == IndexFrom(path, "/", 1)
    IN IF k = 0 THEN <<path>>
       ELSE <<SubSeq(path, 1, k - 1)>> \o PathParts(SubSeq(path, k + 1, Len(path)))

\* Path.resolve(strict=False) where no symbolic link exists: "." and empty
\* parts are dropped, ".." drops the part before it (none at "/").
RECURSIVE Normalize(_, _)
Normalize(parts, acc) ==
    IF parts = <<>> THEN acc
    ELSE IF Head(parts) = <<>> \/ Head(parts) = <<".">>
    THEN Normalize(Tail(parts), acc)
    ELSE IF Head(parts) = <<".", ".">>
    THEN Normalize(Tail(parts),
                   IF acc = <<>> THEN <<>> ELSE SubSeq(acc, 1, Len(acc) - 1))
    ELSE Normalize(Tail(parts), Append(acc, Head(parts)))

\* self.root of the guard: the directory /w.  A resolved path is the
\* sequence of its parts below "/".
Root == <<Chars("w")>>

\* Path.is_relative_to
IsRelativeTo(path, base) == Len(path) >= Len(base) /\ SubSeq(path, 1, Len(base)) = base

\* WorkspaceGuard.resolve_path accepting every path.
resolve_path_unchecked(path) ==
    LET resolved == IF path # <<>> /\ Head(path) = "/"
                    THEN Normalize(PathParts(path), <<>>)
                    ELSE Normalize(PathParts(path), Root)
    IN [ok |-> TRUE, path |-> resolved]

\* WorkspaceGuard.resolve_path: ok is FALSE where it raises
\* WorkspaceViolationError.
resolve_path(path) ==
    LET resolved == IF path # <<>> /\ Head(path) = "/"
                    THEN Normalize(PathParts(path), <<>>)
                    ELSE Normalize(PathParts(path), Root)
    IN [ok |-> IsRelativeTo(resolved, Root), path |-> resolved]

\* resolved.relative_to(self.root).as_posix()
RECURSIVE JoinParts(_)
JoinParts(parts) ==
    IF parts = <<>> THEN <<>>
    ELSE IF Len(parts) = 1 THEN parts[1]
    ELSE parts[1] \o <<"/">> \o JoinParts(Tail(parts))

rel_path(resolved) ==
    IF Len(resolved) = Len(Root) THEN <<".">>
    ELSE JoinParts(SubSeq(resolved, Len(Root) + 1, Len(resolved)))

\* ---------------------------------------------------- the file system
\* files maps the resolved path of every file to its content; dirs is the
\* set of the directories.
Exists(files, dirs, p) == p \in DOMAIN files \/ p \in dirs

\* The directories from "/" down to p.
Ancestors(p) == {SubSeq(p, 1, k) : k \in 0..Len(p)}

\* Path.mkdir(parents=True, exist_ok=True) of directory p: fails where a file
\* stands in the way.
mkdir_parents(files, dirs, p) ==
    IF \E a \in Ancestors(p) : a \in DOMAIN files
    THEN [ok |-> FALSE, dirs |-> dirs]
    ELSE [ok |-> TRUE, dirs |-> dirs \cup Ancestors(p)]

\* Path.write_text: files with content at p.
write_text(files, p, content) ==
    [q \in DOMAIN files \cup {p} |-> IF q = p THEN content ELSE files[q]]

Parent(p) == SubSeq(p, 1, Len(p) - 1)

\* The state a call leaves and its outcome: "ok" or the error it raised.
Done(outcome, files, dirs) == [outcome |-> outcome, files |-> files, dirs |-> dirs]

\* ------------------------------------------------------------ create.py
create_file_in_workspace(files, dirs, path, content, overwrite) ==
    LET Create(abs_path, made) ==
            IF ~made.ok THEN Done("os_error", files, dirs)
            ELSE IF Exists(files, made.dirs, abs_path) /\ ~overwrite
            THEN Done("exists", files, made.dirs)
            ELSE IF abs_path \in made.dirs THEN Done("os_error", files, made.dirs)
            ELSE Done("ok", write_text(files, abs_path, content), made.dirs)
        Resolved(r) ==
            IF ~r.ok THEN Done("violation", files, dirs)
            ELSE Create(r.path, mkdir_parents(files, dirs, Parent(r.path)))
    IN Resolved(resolve_path(path))

\* ------------------------------------------------------------ editor.py
\* edit_file_in_workspace writing the replace text as given into a file it
\* creates.
edit_file_creating_verbatim(files, dirs, path, search, replace) ==
    LET r == resolve_path(path)
        made == mkdir_parents(files, dirs, Parent(r.path))
        absent == ~Exists(files, made.dirs, r.path)
        original == IF absent THEN <<>> ELSE files[r.path]
        updated == apply_search_replace(original, search, replace, path)
    IN IF ~r.ok THEN Done("violation", files, dirs) @@ [changed |-> FALSE]
       ELSE IF ~made.ok THEN Done("os_error", files, dirs) @@ [changed |-> FALSE]
       ELSE IF absent /\ Strip(search) # <<>>
       THEN Done("match", files, made.dirs) @@ [changed |-> FALSE]
       ELSE IF r.path \in made.dirs
       THEN Done("os_error", files, made.dirs) @@ [changed |-> FALSE]
       ELSE IF absent
       THEN Done("ok", write_text(files, r.path, replace), made.dirs)
            @@ [changed |-> replace # <<>>]
       ELSE IF updated.err # ""
       THEN Done(updated.err, files, made.dirs) @@ [changed |-> FALSE]
       ELSE IF updated.text # original
       THEN Done("ok", write_text(files, r.path, updated.text), made.dirs)
            @@ [changed |-> TRUE]
       ELSE Done("ok", files, made.dirs) @@ [changed |-> FALSE]

\* edit_file_in_workspace: the state it leaves, its outcome and, when it
\* returns, whether the content changed.
edit_file_in_workspace(files, dirs, path, search, replace) ==
    LET Unchanged(outcome, files2, dirs2) ==
            Done(outcome, files2, dirs2) @@ [changed |-> FALSE]
        Update(abs_path, dirs2, files1, original, updated) ==
            IF updated.err # "" THEN Unchanged(updated.err, files1, dirs2)
            ELSE IF updated.text # original
            THEN Done("ok", write_text(files1, abs_path, updated.text), dirs2)
                 @@ [changed |-> TRUE]
            ELSE Unchanged("ok", files1, dirs2)
        Read(abs_path, dirs2, files1) ==
            Update(abs_path, dirs2, files1, files1[abs_path],
                   apply_search_replace(files1[abs_path], search, replace, path))
        Edit(abs_path, made, absent) ==
            IF ~made.ok THEN Unchanged("os_error", files, dirs)
            ELSE IF absent /\ Strip(search) # <<>>
            THEN Unchanged("match", files, made.dirs)
            ELSE IF abs_path \in made.dirs
            THEN Unchanged("os_error", files, made.dirs)
            ELSE Read(abs_path, made.dirs,
                      IF absent THEN write_text(files, abs_path, <<>>) ELSE files)
        Made(abs_path, made) ==
            Edit(abs_path, made, made.ok /\ ~Exists(files, made.dirs, abs_path))
        Resolved(r) ==
            IF ~r.ok THEN Unchanged("violation", files, dirs)
            ELSE Made(r.path, mkdir_parents(files, dirs, Parent(r.path)))
    IN Resolved(resolve_path(path))

\* The loop of apply_edit_blocks_in_workspace going on after a block that
\* failed.
RECURSIVE ApplyBlocksPastFailures(_, _, _, _, _)
ApplyBlocksPastFailures(files, dirs, blocks, outcomes, failure) ==
    IF blocks = <<>>
    THEN Done(IF failure = "" THEN "ok" ELSE failure, files, dirs) @@ [outcomes |-> outcomes]
    ELSE LET block == Head(blocks)
             e == edit_file_in_workspace(files, dirs, block.path, block.search,
                                         block.replace)
         IN IF e.outcome # "ok"
            THEN ApplyBlocksPastFailures(e.files, e.dirs, Tail(blocks), outcomes,
                                         IF failure = "" THEN e.outcome ELSE failure)
            ELSE ApplyBlocksPastFailures(
                     e.files, e.dirs, Tail(blocks),
                     Append(outcomes, [path |-> rel_path(resolve_path(block.path).path),
                                       changed |-> e.changed]),
                     failure)

\* The loop of apply_edit_blocks_in_workspace over the blocks: it ends at
\* the first block that fails.
RECURSIVE ApplyBlocks(_, _, _, _)
ApplyBlocks(files, dirs, blocks, outcomes) ==
    IF blocks = <<>> THEN Done("ok", files, dirs) @@ [outcomes |-> outcomes]
    ELSE LET block == Head(blocks)
             Then(e) ==
                 IF e.outcome # "ok"
                 THEN Done(e.outcome, e.files, e.dirs) @@ [outcomes |-> outcomes]
                 ELSE ApplyBlocks(
                          e.files, e.dirs, Tail(blocks),
                          Append(outcomes,
                                 [path |-> rel_path(resolve_path(block.path).path),
                                  changed |-> e.changed]))
         IN Then(edit_file_in_workspace(files, dirs, block.path, block.search,
                                        block.replace))

\* apply_edit_blocks_in_workspace applying the blocks parsed before the
\* malformed part of the text.
apply_edit_blocks_while_parsing(files, dirs, instruction_text, valid_files) ==
    LET scanned == ScanBlocks(splitlines_keepends(instruction_text), 1, <<>>, <<>>,
                              valid_files)
        applied == ApplyBlocks(files, dirs, scanned.blocks, <<>>)
    IN IF scanned.err # "" /\ applied.outcome = "ok"
       THEN [applied EXCEPT !.outcome = scanned.err, !.outcomes = <<>>]
       ELSE applied

\* apply_edit_blocks_in_workspace going on after a failed block.
apply_edit_blocks_past_failures(files, dirs, instruction_text, valid_files) ==
    LET parsed == parse_edit_blocks(instruction_text, valid_files)
    IN IF parsed.err # "" THEN Done(parsed.err, files, dirs) @@ [outcomes |-> <<>>]
       ELSE ApplyBlocksPastFailures(files, dirs, parsed.blocks, <<>>, "")

\* apply_edit_blocks_in_workspace
apply_edit_blocks_in_workspace(files, dirs, instruction_text, valid_files) ==
    LET Apply(parsed) ==
            IF parsed.err # "" THEN Done(parsed.err, files, dirs) @@ [outcomes |-> <<>>]
            ELSE ApplyBlocks(files, dirs, parsed.blocks, <<>>)
    IN Apply(parse_edit_blocks(instruction_text, valid_files))

\* ----------------------------------------------- listing.py, service.py
\* sorted(results)
RECURSIVE SortStrings(_)
SortStrings(S) ==
    IF S = {} THEN <<>>
    ELSE LET m == CHOOSE x \in S : \A y \in S : x = y \/ StrLess(x, y)
         IN <<m>> \o SortStrings(S \ {m})

\* list_files_in_workspace(guard, ".", recursive=True, include_dirs=False,
\* include_hidden=True): the files below the root.
list_files_in_workspace(files) ==
    SortStrings({rel_path(p) : p \in {q \in DOMAIN files :
                                          IsRelativeTo(q, Root) /\ q # Root}})

\* FileManager.apply_edit_blocks
apply_edit_blocks(files, dirs, instruction_text) ==
    apply_edit_blocks_in_workspace(files, dirs, instruction_text,
                                   list_files_in_workspace(files))

\* ----------------------------------------------------------------- state
VARIABLES
    plan_exists,    \* whether the plan file exists
    plan_text,      \* its text (<<>> while it does not exist)
    last,           \* the last call: its arguments, the file before it, its result
    codec,          \* a render/parse round trip: its input and its results
    files,          \* the content of every file, by resolved path
    dirs,           \* the directories, by resolved path
    fm,             \* the last FileManager call: arguments, state before, result
    patch,          \* one apply_search_replace call: its input and its result
    scan,           \* one parse_edit_blocks call: its input and its result
    learn           \* the learn graph: its node, its state, and of the subtask in
                    \* progress the item picked, the read calls run, how the react
                    \* loop ended and the item marked

PlanVars == <<plan_exists, plan_text, last, codec>>
FileVars == <<files, dirs, fm, patch, scan>>
vars == <<plan_exists, plan_text, last, codec, files, dirs, fm, patch, scan, learn>>

NoCall ==
    [op |-> "none", payload |-> <<>>, parts |-> <<>>, item_id |-> 0, to_status |-> "",
     pre_exists |-> FALSE, pre_text |-> <<>>,
     outcome |-> "", write |-> FALSE, items |-> <<>>, output |-> <<>>]

NoCodec ==
    [stage |-> "none", items |-> <<>>, rendered |-> [ok |-> FALSE, text |-> <<>>],
     parsed |-> [ok |-> FALSE, items |-> <<>>]]

NoFm ==
    [op |-> "none", path |-> <<>>, search |-> <<>>, replace |-> <<>>,
     content |-> <<>>, overwrite |-> FALSE, text |-> <<>>,
     pre_files |-> <<>>, pre_dirs |-> {},
     outcome |-> "", changed |-> FALSE, outcomes |-> <<>>]

NoPatch ==
    [stage |-> "none", content |-> <<>>, search |-> <<>>, replace |-> <<>>,
     path |-> <<>>, result |-> [err |-> "", text |-> <<>>]]

NoScan ==
    [stage |-> "none", text |-> <<>>, valid_files |-> <<>>,
     result |-> [err |-> "", blocks |-> <<>>]]

\* A FileManager stands on the workspace /w, which WorkspaceGuard.__init__
\* made sure exists and which holds no file yet; outside it there is the
\* file /o.py.
OutsideFile == <<Chars("o.py")>>
InitialFiles == [p \in {OutsideFile} |-> <<"A", NL>>]
InitialDirs == {<<>>, Root}

\* The documents of the read skill, and the stage of a document nothing was
\* recorded for: state.get("read_doc_stage", {}).get(doc_id, "").
Docs == {"d1", "d2"}
NoStages == [d \in Docs |-> ""]

\* The learn graph is not running.
NoLearn ==
    [node |-> "none", error |-> "",
     plan_items |-> <<>>, current_index |-> 0, current_subtask_id |-> 0,
     current_subtask |-> <<>>, react_turn |-> 0, stop_reason |-> "",
     read_doc_stage |-> NoStages, subtask_summaries |-> <<>>, done |-> FALSE,
     call |-> [tool |-> "", reason |-> "", skill |-> "", op |-> "", doc |-> "",
               payload |-> <<>>, parts |-> <<>>, exit_code |-> 0],
     picked |-> [id |-> 0, title |-> <<>>],
     reads |-> {},
     ended |-> "",
     marked |-> [id |-> 0, title |-> <<>>, status |-> ""]]

FileManagerAtRest ==
    /\ files = InitialFiles
    /\ dirs = InitialDirs
    /\ fm = NoFm
    /\ patch = NoPatch
    /\ scan = NoScan

\* The plan file is absent, or holds the empty ledger.
Init ==
    /\ plan_exists \in BOOLEAN
    /\ plan_text = IF plan_exists THEN EmptyLedgerText ELSE <<>>
    /\ last = NoCall
    /\ codec = NoCodec
    /\ FileManagerAtRest
    /\ learn = NoLearn

\* A call made while no call is in progress returns r: the file is written if
\* r says so, and the call is recorded with its result.
\* A ledger grown beyond MaxItems is out of the model's bounds.
Commit(call, r) ==
    /\ last.op = "none"
    /\ r.outcome = "ok" =>
          \/ Len(r.items) <= MaxItems
          \/ Len(r.items) <= Len(parse_plan(plan_text).items)
    /\ plan_exists' = (plan_exists \/ r.write)
    /\ plan_text' = IF r.write THEN r.text ELSE plan_text
    /\ last' = [call EXCEPT !.pre_exists = plan_exists, !.pre_text = plan_text,
                            !.outcome = r.outcome, !.write = r.write,
                            !.items = r.items, !.output = r.output]
    /\ UNCHANGED <<codec, FileVars, learn>>

\* mutate_plan_file(plan, "upsert", items_json, None)
Upsert(payload) ==
    Commit([NoCall EXCEPT !.op = "upsert", !.payload = payload],
           mutate_plan_file(plan_exists, plan_text, "upsert", TRUE, payload, FALSE, <<>>))

\* mutate_plan_file(plan, "remove", None, ids_csv)
Remove(parts) ==
    Commit([NoCall EXCEPT !.op = "remove", !.parts = parts],
           mutate_plan_file(plan_exists, plan_text, "remove", FALSE, <<>>, TRUE, parts))

\* mutate_plan_file with an unsupported op, or with the wrong one of
\* items_json / ids_csv.
Misuse(op, has_items, has_ids) ==
    /\ ~(op = "upsert" /\ has_items /\ ~has_ids)
    /\ ~(op = "remove" /\ has_ids /\ ~has_items)
    /\ Commit([NoCall EXCEPT !.op = "misuse", !.to_status = op],
              mutate_plan_file(plan_exists, plan_text, op, has_items,
                               <<Entry(NoId, "todo", TitlePlain)>>, has_ids, <<"1">>))

\* The tool plan_upsert_todos(items_json)
UpsertTodos(payload) ==
    Commit([NoCall EXCEPT !.op = "upsert_todos", !.payload = payload],
           _upsert_todos(plan_exists, plan_text, payload))

\* The tool plan_remove_ids(ids)
RemoveIds(parts) ==
    Commit([NoCall EXCEPT !.op = "remove_ids", !.parts = parts],
           _remove_ids(plan_exists, plan_text, parts))

\* transition_plan_item_status(plan_file, item_id, to_status)
Transition(item_id, to_status) ==
    Commit([NoCall EXCEPT !.op = "transition", !.item_id = item_id,
                          !.to_status = to_status],
           transition_plan_item_status(plan_exists, plan_text, item_id, to_status))

\* The caller takes the result (main prints it and the process ends); the
\* next call can be made.
Return ==
    /\ last.op # "none"
    /\ last' = NoCall
    /\ UNCHANGED <<plan_exists, plan_text, codec, FileVars, learn>>

Next ==
    \/ \E payload \in Payloads : Upsert(payload)
    \/ \E parts \in IdLists : Remove(parts)
    \/ \E op \in {"upsert", "remove", "bogus"}, hi, hd \in BOOLEAN : Misuse(op, hi, hd)
    \/ \E payload \in Payloads : UpsertTodos(payload)
    \/ \E parts \in IdLists : RemoveIds(parts)
    \/ \E item_id \in 0..(MaxItems + 1), to_status \in VALID_STATUS :
            Transition(item_id, to_status)
    \/ Return

Spec == Init /\ [][Next]_vars

\* ------------------------------------------------- the codec on its own
\* Item lists handed to render_plan_block: a valid status, a trimmed
\* non-empty title, and an id of the caller's that render ignores.
TitleTwoWords == <<"a", SP, "b">>
CodecItems ==
    [status : VALID_STATUS, title : {TitlePlain, TitleTwoWords, TitleBreak},
     id : {1, 7}]
CodecInputs == SeqsOver(CodecItems, 0, MaxPayload)

InitCodec ==
    /\ plan_exists = FALSE
    /\ plan_text = <<>>
    /\ last = NoCall
    /\ codec \in {[NoCodec EXCEPT !.stage = "input", !.items = items] :
                     items \in CodecInputs}
    /\ FileManagerAtRest
    /\ learn = NoLearn

\* parse_plan(render_plan_block(items))
RoundTrip ==
    /\ codec.stage = "input"
    /\ LET rendered == render_plan_block(codec.items)
       IN codec' = [codec EXCEPT
                       !.stage = "done",
                       !.rendered = rendered,
                       !.parsed = IF rendered.ok THEN parse_plan(rendered.text)
                                  ELSE [ok |-> FALSE, items |-> <<>>]]
    /\ UNCHANGED <<plan_exists, plan_text, last, FileVars, learn>>

NextCodec == RoundTrip

SpecCodec == InitCodec /\ [][NextCodec]_vars

\* ------------------------------------------- removes on longer ledgers
\* Ledgers of up to MaxLedger items, each with a title of its own and the
\* statuses alternating, as earlier upserts have persisted them.
Letters == <<"a", "b", "c", "d", "e", "f", "g", "h", "i">>
LedgerInputs ==
    {[i \in 1..n |-> [status |-> IF i % 2 = 1 THEN "todo" ELSE "done",
                      title |-> <<Letters[i]>>]] : n \in 0..MaxLedger}

LongIdTokens == {IntToStr(i) : i \in 1..MaxLedger} \cup {"0", "00", "-1", "x"}
LongIdLists == SeqsOver(LongIdTokens, 1, MaxRemove)

InitRemove ==
    /\ plan_exists = TRUE
    /\ plan_text \in {FileText(render_plan_block(items).text) : items \in LedgerInputs}
    /\ last = NoCall
    /\ codec = NoCodec
    /\ FileManagerAtRest
    /\ learn = NoLearn

NextRemove ==
    \/ \E parts \in LongIdLists : Remove(parts)
    \/ \E parts \in LongIdLists : RemoveIds(parts)
    \/ Return

SpecRemove == InitRemove /\ [][NextRemove]_vars

\* ------------------------------------------------------ the FileManager
\* The marker lines of an edit block, as run_file_manage.py writes them.
SearchLine == Rep("<", 7) \o Chars(" SEARCH") \o <<NL>>
DividerLine == Rep("=", 7) \o <<NL>>
ReplaceLine == Rep(">", 7) \o Chars(" REPLACE") \o <<NL>>

\* One edit block: the line before the SEARCH marker (an empty line if name
\* is <<>>), the search lines and the replace lines.
Block(name, search, replace) ==
    (IF name = <<>> THEN <<NL>> ELSE name \o <<NL>>)
    \o SearchLine \o search \o DividerLine \o replace \o ReplaceLine

\* The paths the calls are made with.
InsidePaths ==
    {Chars("a.py"), Chars("d/n.py"), Chars("/w/a.py"), Chars("a.py/n.py"), <<".">>}
EscapingPaths == {Chars("../o.py"), Chars("/o.py"), Chars("d/../../o.py")}
FmPaths == InsidePaths \cup EscapingPaths

CreateContents == {<<>>, <<"A">>, <<"A", NL>>}

\* Pairs <<search, replace>> of edit_file.
FmEdits ==
    {<<<<>>, <<"X">>>>, <<<<SP, NL>>, <<"X", NL>>>>, <<<<"A", NL>>, <<"B", NL>>>>,
     <<<<"z">>, <<"X">>>>, <<<<>>, Chars("a.py") \o <<NL, "X", NL, NL>>>>,
     <<Chars("A") \o <<NL>> \o Dots \o <<NL>>, Chars("B") \o <<NL>> \o Dots \o <<NL>>>>,
     <<Chars("A") \o <<NL>> \o Dots \o <<NL>>,
       Chars("B") \o <<NL, SP>> \o Dots \o <<NL>>>>,
     <<<<"A", NL>> \o Dots \o <<NL, "X", NL>>, <<"X", NL>> \o Dots \o <<NL, "B", NL>>>>}

\* Instruction texts of apply_edit_blocks.
TwoOnOneFile ==
    Block(Chars("a.py"), <<"A", NL>>, <<"B", NL>>) \o Block(<<>>, <<"B", NL>>, <<"C", NL>>)
FailingInTheMiddle ==
    Block(Chars("a.py"), <<"A", NL>>, <<"B", NL>>)
    \o Block(<<>>, <<"B", NL>>, <<"C", NL>>)
    \o Block(Chars("d/n.py"), <<"z", NL>>, <<"X", NL>>)
    \o Block(Chars("a.py"), <<"C", NL>>, <<"D", NL>>)
NoDividerAtTheEnd ==
    Block(Chars("a.py"), <<"A", NL>>, <<"B", NL>>)
    \o Chars("a.py") \o <<NL>> \o SearchLine \o <<"B", NL>>
NoCloseAtTheEnd ==
    Block(<<>>, <<>>, <<"X", NL>>)
    \o Chars("a.py") \o <<NL>> \o SearchLine \o <<"A", NL>> \o DividerLine \o <<"B", NL>>
AdjacentBlocks ==
    Block(Chars("a.py"), <<"A", NL>>, <<"B", NL>>)
    \o SearchLine \o <<"B", NL>> \o DividerLine \o <<"C", NL>> \o ReplaceLine
FmTexts ==
    {Block(Chars("a.py"), <<"A", NL>>, <<"B", NL>>), AdjacentBlocks,
     Block(Chars("d/n.py"), <<>>, <<"X", NL>>),
     Block(Chars("../o.py"), <<>>, <<"X", NL>>),
     Block(<<>>, <<"A", NL>>, <<"B", NL>>),
     TwoOnOneFile, FailingInTheMiddle, NoDividerAtTheEnd, NoCloseAtTheEnd}

\* The longest content a call may leave in a file.
MaxContent == 4

\* A call made while no call is in progress leaves the state r and is
\* recorded with its result.
FmCommit(call, r) ==
    /\ fm.op = "none"
    /\ \A p \in DOMAIN r.files : Len(r.files[p]) <= MaxContent
    /\ files' = r.files
    /\ dirs' = r.dirs
    /\ fm' = [call EXCEPT !.pre_files = files, !.pre_dirs = dirs,
                          !.outcome = r.outcome, !.changed = r.changed,
                          !.outcomes = r.outcomes]
    /\ UNCHANGED <<PlanVars, patch, scan, learn>>

\* FileManager.create_file(path, content, overwrite)
CreateFile(path, content, overwrite) ==
    FmCommit([NoFm EXCEPT !.op = "create", !.path = path, !.content = content,
                          !.overwrite = overwrite],
             create_file_in_workspace(files, dirs, path, content, overwrite)
                 @@ [changed |-> FALSE, outcomes |-> <<>>])

\* FileManager.edit_file(path, search, replace)
EditFile(path, search, replace) ==
    FmCommit([NoFm EXCEPT !.op = "edit", !.path = path, !.search = search,
                          !.replace = replace],
             edit_file_in_workspace(files, dirs, path, search, replace)
                 @@ [outcomes |-> <<>>])

\* FileManager.apply_edit_blocks(instruction_text)
ApplyEditBlocks(text) ==
    FmCommit([NoFm EXCEPT !.op = "apply_edit_blocks", !.text = text],
             apply_edit_blocks(files, dirs, text) @@ [changed |-> FALSE])

\* The caller takes the result or the exception; the next call can be made.
FmReturn ==
    /\ fm.op # "none"
    /\ fm' = NoFm
    /\ UNCHANGED <<PlanVars, files, dirs, patch, scan, learn>>

InitFiles ==
    /\ plan_exists = FALSE
    /\ plan_text = <<>>
    /\ last = NoCall
    /\ codec = NoCodec
    /\ FileManagerAtRest
    /\ learn = NoLearn

NextFiles ==
    \/ \E path \in FmPaths, content \in CreateContents, overwrite \in BOOLEAN :
            CreateFile(path, content, overwrite)
    \/ \E path \in FmPaths, e \in FmEdits : EditFile(path, e[1], e[2])
    \/ \E text \in FmTexts : ApplyEditBlocks(text)
    \/ FmReturn

SpecFiles == InitFiles /\ [][NextFiles]_vars

\* -------------------------------------- apply_search_replace on its own
PatchContents ==
    {<<>>, <<"A">>, <<"A", NL>>, <<"a", NL, "b", NL, "a", NL>>, <<SP, "a", NL, "b">>,
     <<"a", NL, SP, NL, "b", NL>>, <<SP, NL, "a", NL, "b", NL>>}
PatchSearches ==
    {<<>>, <<SP>>, <<SP, NL>>, <<"A">>, <<"a", NL>>, <<"b", NL, "a">>, <<SP, "a", NL>>,
     <<NL, "a", NL, "b", NL>>,
     <<"z", NL>>, Chars("a.py") \o <<NL, "a", NL>>, <<"a", NL>> \o Dots \o <<NL, "b", NL>>}
PatchReplaces ==
    {<<>>, <<"X">>, <<"X", NL>>, Chars("a.py") \o <<NL, "X">>,
     <<"a", NL, SP>> \o Dots \o <<NL, "X", NL>>}
PatchPaths == {<<>>, Chars("a.py")}

InitPatch ==
    /\ plan_exists = FALSE
    /\ plan_text = <<>>
    /\ last = NoCall
    /\ codec = NoCodec
    /\ files = InitialFiles
    /\ dirs = InitialDirs
    /\ fm = NoFm
    /\ scan = NoScan
    /\ learn = NoLearn
    /\ patch \in {[NoPatch EXCEPT !.stage = "input", !.content = c, !.search = s,
                                  !.replace = r, !.path = p] :
                     c \in PatchContents, s \in PatchSearches, r \in PatchReplaces,
                     p \in PatchPaths}

\* apply_search_replace(content, search, replace, path)
ApplySearchReplace ==
    /\ patch.stage = "input"
    /\ patch' = [patch EXCEPT
                    !.stage = "done",
                    !.result = apply_search_replace(patch.content, patch.search,
                                                    patch.replace, patch.path)]
    /\ UNCHANGED <<PlanVars, files, dirs, fm, scan, learn>>

NextPatch == ApplySearchReplace

SpecPatch == InitPatch /\ [][NextPatch]_vars

\* ----------------------------------------- parse_edit_blocks on its own
\* What stands before a SEARCH marker.
ScanHeads ==
    {<<>>, Chars("a.py") \o <<NL>>, Chars("s/a.py") \o <<NL>>, Chars("zz") \o <<NL>>,
     Chars("a.pyx") \o <<NL>>, Chars("b.py") \o <<NL>> \o Fence \o <<NL>>,
     <<"#", SP>> \o Chars("a.py") \o <<":", NL>>, Dots \o <<NL>>}
ScanBodies ==
    {SearchLine \o <<"A", NL>> \o DividerLine \o <<"B", NL>> \o ReplaceLine,
     SearchLine \o <<"A", NL>>,
     SearchLine \o <<"A", NL>> \o DividerLine \o <<"B", NL>>,
     SearchLine \o <<"A", NL>> \o DividerLine \o <<"B", NL>> \o DividerLine}
ScanTexts ==
    {h \o b : h \in ScanHeads, b \in ScanBodies}
    \cup {h1 \o Block(<<>>, <<"A", NL>>, <<"B", NL>>) \o h2 \o b :
             h1 \in ScanHeads, h2 \in ScanHeads, b \in ScanBodies}
\* The lists of valid files, sorted as list_files_in_workspace sorts them.
ScanValidFiles ==
    {<<>>, <<Chars("a.py")>>, <<Chars("l/a.py"), Chars("s/a.py")>>,
     <<Chars("a.py"), Chars("b.py"), Chars("s/a.py")>>, <<Chars("b.py")>>}

InitScan ==
    /\ plan_exists = FALSE
    /\ plan_text = <<>>
    /\ last = NoCall
    /\ codec = NoCodec
    /\ files = InitialFiles
    /\ dirs = InitialDirs
    /\ fm = NoFm
    /\ patch = NoPatch
    /\ learn = NoLearn
    /\ scan \in {[NoScan EXCEPT !.stage = "input", !.text = t, !.valid_files = v] :
                    t \in ScanTexts, v \in ScanValidFiles}

\* parse_edit_blocks(text, valid_files)
ParseEditBlocks ==
    /\ scan.stage = "input"
    /\ scan' = [scan EXCEPT
                   !.stage = "done",
                   !.result = parse_edit_blocks(scan.text, scan.valid_files)]
    /\ UNCHANGED <<PlanVars, files, dirs, fm, patch, learn>>

NextScan == ParseEditBlocks

SpecScan == InitScan /\ [][NextScan]_vars

\* ------------------------------------------------------- the learn graph
\* A node raised: the graph stops there with what it had written so far.
LearnFailed(state, kind) == [state EXCEPT !.node = "failed", !.error = kind]

\* The graph state and the plan file a node leaves.
After(state, exists, text) == [learn |-> state, exists |-> exists, text |-> text]

\* validate_input(state): task and workspace stripped and not empty.
validate_input(state, task, workspace) ==
    IF Strip(task) = <<>> \/ Strip(workspace) = <<>> THEN LearnFailed(state, "validation")
    ELSE [state EXCEPT !.node = "build_plan_context"]

\* build_plan_context: the update it returns on the way to plan_task.
build_plan_context(state) ==
    [state EXCEPT !.node = "plan_task", !.plan_items = <<>>, !.current_index = 0,
                  !.current_subtask_id = 0, !.current_subtask = <<>>,
                  !.subtask_summaries = <<>>, !.react_turn = 0, !.stop_reason = "",
                  !.read_doc_stage = NoStages, !.done = FALSE]

\* load_plan_items_from_file
load_plan_items_from_file(exists, text) ==
    IF ~exists THEN [ok |-> FALSE, items |-> <<>>] ELSE parse_plan_items(text)

\* The loop of run_plan_task over the tool calls of the plan model: each
\* tool writes the plan file or raises.
RECURSIVE RunPlanTools(_, _, _)
RunPlanTools(exists, text, calls) ==
    IF calls = <<>> THEN [outcome |-> "ok", exists |-> exists, text |-> text]
    ELSE LET Then(m) ==
                 IF m.outcome # "ok"
                 THEN [outcome |-> m.outcome, exists |-> exists, text |-> text]
                 ELSE RunPlanTools(exists \/ m.write,
                                   IF m.write THEN m.text ELSE text, Tail(calls))
         IN Then(IF Head(calls).tool = "plan_upsert_todos"
                 THEN _upsert_todos(exists, text, Head(calls).payload)
                 ELSE _remove_ids(exists, text, Head(calls).parts))

\* plan_task / run_plan_task: the plan model's tool calls are executed, the
\* plan file is read back and its length checked.
plan_task(state, exists, text, calls) ==
    LET Loaded(ran, parsed) ==
            IF ~parsed.ok THEN After(LearnFailed(state, "format"), ran.exists, ran.text)
            ELSE IF Len(parsed.items) > max_plan_steps
            THEN After(LearnFailed(state, "validation"), ran.exists, ran.text)
            ELSE After([state EXCEPT !.node = "select_next_subtask",
                                     !.plan_items = parsed.items],
                       ran.exists, ran.text)
        Ran(ran) ==
            IF ran.outcome # "ok" THEN After(LearnFailed(state, ran.outcome), ran.exists, ran.text)
            ELSE Loaded(ran, load_plan_items_from_file(ran.exists, ran.text))
    IN IF calls = <<>> THEN After(LearnFailed(state, "validation"), exists, text)
       ELSE Ran(RunPlanTools(exists, text, calls))

\* pick_next_todo_item: the id of the first todo item, 0 for None.
pick_next_todo_item(plan_items) ==
    IF \A i \in 1..Len(plan_items) : plan_items[i].status # "todo" THEN 0
    ELSE SetMin({i \in 1..Len(plan_items) : plan_items[i].status = "todo"})

\* start_next_subtask: the picked id (0 for None), the items, the file.
start_next_subtask(exists, text) ==
    LET Started(next_id, m) ==
            [outcome |-> m.outcome, picked |-> next_id, text |-> m.text,
             write |-> m.write, items |-> parse_plan_items(m.output).items]
        Start(current, next_id) ==
            IF next_id = 0
            THEN [outcome |-> "ok", picked |-> 0, text |-> text, write |-> FALSE,
                  items |-> current.items]
            ELSE Started(next_id,
                         transition_plan_item_status(exists, text, next_id, "doing"))
        Pick(current) ==
            IF ~current.ok
            THEN [outcome |-> "format", picked |-> 0, text |-> text, write |-> FALSE,
                  items |-> <<>>]
            ELSE Start(current, pick_next_todo_item(current.items))
    IN Pick(load_plan_items_from_file(exists, text))

\* select_next_subtask
select_next_subtask(state, exists, text) ==
    LET Selected(s) ==
            IF s.outcome # "ok" THEN After(LearnFailed(state, s.outcome), exists, text)
            ELSE IF s.picked = 0
            THEN After([state EXCEPT !.node = "finalize_summary",
                                     !.plan_items = s.items, !.current_index = 0,
                                     !.current_subtask_id = 0,
                                     !.current_subtask = <<>>],
                       exists, text)
            ELSE After([state EXCEPT !.node = "react_think",
                                     !.plan_items = s.items,
                                     !.current_index = s.picked - 1,
                                     !.current_subtask_id = s.picked,
                                     !.current_subtask = s.items[s.picked].title,
                                     !.react_turn = 0, !.stop_reason = "",
                                     !.read_doc_stage = NoStages,
                                     !.picked = [id |-> s.picked,
                                                 title |-> s.items[s.picked].title],
                                     !.reads = {}, !.ended = "",
                                     !.marked = NoLearn.marked],
                       exists, IF s.write THEN s.text ELSE text)
        Load(plan_items) ==
            IF ~plan_items.ok THEN After(LearnFailed(state, "format"), exists, text)
            ELSE IF \E i \in 1..Len(plan_items.items) : plan_items.items[i].status = "doing"
            THEN After(LearnFailed(state, "validation"), exists, text)
            ELSE Selected(start_next_subtask(exists, text))
    IN Load(load_plan_items_from_file(exists, text))

\* react_think: the turn is counted and the think model's response, which
\* must hold exactly one tool call, is appended to the trace.
react_think(state, call) ==
    IF call.tool = "" THEN LearnFailed(state, "validation")
    ELSE [state EXCEPT !.node = "react_act", !.react_turn = state.react_turn + 1,
                       !.call = call]

\* _validate_read_sequence letting a read follow the ingest directly.
validate_read_sequence_after_ingest(read_doc_stage, op, doc_id) ==
    IF op = "ingest" THEN ""
    ELSE IF read_doc_stage[doc_id] = "" THEN "validation"
    ELSE ""

\* _validate_read_sequence: "" when the call may run.
_validate_read_sequence(read_doc_stage, op, doc_id) ==
    IF op = "ingest" THEN ""
    ELSE IF read_doc_stage[doc_id] = "" THEN "validation"
    ELSE IF op \in {"outline", "find"} THEN ""
    ELSE IF read_doc_stage[doc_id] \notin {"located", "read"} THEN "validation"
    ELSE ""

\* _apply_read_stage_update; for ingest doc_id is data.doc_id of the output.
_apply_read_stage_update(read_doc_stage, skill_name, op, doc_id) ==
    IF skill_name # "read" THEN read_doc_stage
    ELSE IF op = "ingest" THEN [read_doc_stage EXCEPT ![doc_id] = "ingested"]
    ELSE IF op \in {"outline", "find"} THEN [read_doc_stage EXCEPT ![doc_id] = "located"]
    ELSE IF op = "read" THEN [read_doc_stage EXCEPT ![doc_id] = "read"]
    ELSE read_doc_stage

\* react_act: FinishSubtask sets the stop reason; a tool is checked, run (the
\* entry of the plan skill mutates the plan file and exits with 1 when the
\* mutation raises) and its output appended to the trace.
react_act(state, exists, text) ==
    LET call == state.call
        Acted(exists2, text2) ==
            After([state EXCEPT !.node = "react_should_stop", !.stop_reason = "",
                                !.read_doc_stage =
                                    _apply_read_stage_update(state.read_doc_stage,
                                        call.skill, call.op, call.doc),
                                !.reads = IF call.skill = "read"
                                          THEN state.reads \cup {<<call.op, call.doc>>}
                                          ELSE state.reads],
                  exists2, text2)
        Mutated(m) ==
            IF m.outcome # "ok" THEN After(LearnFailed(state, "runtime"), exists, text)
            ELSE Acted(exists \/ m.write, IF m.write THEN m.text ELSE text)
    IN IF call.tool = "FinishSubtask"
       THEN After([state EXCEPT !.node = "react_should_stop",
                                !.stop_reason = IF call.reason = "" THEN "model_finish"
                                                ELSE call.reason],
                  exists, text)
       ELSE IF call.tool \notin {"load_skill", "run_skill_entry"}
       THEN After(LearnFailed(state, "validation"), exists, text)
       ELSE IF call.tool = "load_skill" THEN Acted(exists, text)
       ELSE IF call.skill = "read"
               /\ _validate_read_sequence(state.read_doc_stage, call.op, call.doc) # ""
       THEN After(LearnFailed(state, "validation"), exists, text)
       ELSE IF call.skill = "plan"
       THEN Mutated(mutate_plan_file(exists, text, call.op, call.op = "upsert",
                                     call.payload, call.op = "remove", call.parts))
       ELSE IF call.exit_code # 0 THEN After(LearnFailed(state, "runtime"), exists, text)
       ELSE Acted(exists, text)

\* react_should_stop; the end of the react subgraph leads run_react_subgraph
\* to summarize_subtask.
react_should_stop(state) ==
    IF state.stop_reason # ""
    THEN [state EXCEPT !.node = "summarize_subtask", !.ended = "finish"]
    ELSE IF state.react_turn >= max_react_turns_per_subtask
    THEN [state EXCEPT !.node = "summarize_subtask", !.stop_reason = "max_react_turns",
                       !.ended = "limit"]
    ELSE [state EXCEPT !.node = "react_think"]

\* summarize_subtask with run_subtask_summary: the item at current_subtask_id
\* is moved to done or aborted, then the summary model's text (summary, empty
\* or not) is kept as the summary of the subtask.
summarize_subtask(state, exists, text, summary) ==
    LET to_status == IF state.stop_reason = "max_react_turns" THEN "aborted" ELSE "done"
        Summarized(m, updated) ==
            IF m.outcome # "ok" THEN After(LearnFailed(state, m.outcome), exists, text)
            ELSE IF state.current_subtask = <<>> \/ Strip(summary) = <<>>
            THEN After(LearnFailed([state EXCEPT !.marked =
                                        [id |-> state.current_subtask_id,
                                         title |-> updated[state.current_subtask_id].title,
                                         status |-> to_status]], "validation"),
                       exists \/ m.write, IF m.write THEN m.text ELSE text)
            ELSE After([state EXCEPT !.node = "select_next_subtask",
                                     !.plan_items = updated,
                                     !.subtask_summaries =
                                         Append(state.subtask_summaries,
                                                state.current_subtask_id),
                                     !.react_turn = 0, !.stop_reason = "",
                                     !.current_subtask = <<>>,
                                     !.current_subtask_id = 0,
                                     !.marked =
                                        [id |-> state.current_subtask_id,
                                         title |-> updated[state.current_subtask_id].title,
                                         status |-> to_status]],
                       exists \/ m.write, IF m.write THEN m.text ELSE text)
        Transitioned(m) == Summarized(m, parse_plan_items(m.output).items)
    IN IF state.current_subtask_id <= 0
       THEN After(LearnFailed(state, "validation"), exists, text)
       ELSE Transitioned(transition_plan_item_status(exists, text,
                                                     state.current_subtask_id, to_status))

\* finalize_summary with run_finalize_summary.
finalize_summary(state, exists, text, summary) ==
    LET Load(plan_items) ==
            IF ~plan_items.ok THEN LearnFailed(state, "format")
            ELSE IF \E i \in 1..Len(plan_items.items) :
                        plan_items.items[i].status \in {"todo", "doing"}
            THEN LearnFailed(state, "validation")
            ELSE IF Strip(summary) = <<>> THEN LearnFailed(state, "validation")
            ELSE [state EXCEPT !.node = "end", !.plan_items = plan_items.items,
                               !.done = TRUE]
    IN Load(load_plan_items_from_file(exists, text))

\* A node of the graph runs and leaves r; a ledger grown beyond MaxItems is
\* out of the model's bounds.
LearnStep(node, r) ==
    /\ learn.node = node
    /\ r.exists => Len(parse_plan(r.text).items) <= MaxItems
    /\ learn' = r.learn
    /\ plan_exists' = r.exists
    /\ plan_text' = r.text
    /\ UNCHANGED <<last, codec, FileVars>>

ValidateInput(task, workspace) ==
    LearnStep("validate_input",
              After(validate_input(learn, task, workspace), plan_exists, plan_text))

BuildPlanContext ==
    LearnStep("build_plan_context",
              After(build_plan_context(learn), plan_exists, plan_text))

PlanTask(calls) ==
    LearnStep("plan_task", plan_task(learn, plan_exists, plan_text, calls))

SelectNextSubtask ==
    LearnStep("select_next_subtask", select_next_subtask(learn, plan_exists, plan_text))

ReactThink(call) ==
    LearnStep("react_think", After(react_think(learn, call), plan_exists, plan_text))

ReactAct == LearnStep("react_act", react_act(learn, plan_exists, plan_text))

ReactShouldStop ==
    LearnStep("react_should_stop",
              After(react_should_stop(learn), plan_exists, plan_text))

SummarizeSubtask(summary) ==
    LearnStep("summarize_subtask",
              summarize_subtask(learn, plan_exists, plan_text, summary))

FinalizeSummary(summary) ==
    LearnStep("finalize_summary",
              After(finalize_summary(learn, plan_exists, plan_text, summary),
                    plan_exists, plan_text))

\* ---------------------------------------------------- inputs of the graph
TitleOther == <<"b">>
LearnTexts == {<<>>, <<"t">>}

\* A tool call of the plan model or of the think model.
ToolCall(tool, reason, skill, op, doc, payload, parts, exit_code) ==
    [tool |-> tool, reason |-> reason, skill |-> skill, op |-> op, doc |-> doc,
     payload |-> payload, parts |-> parts, exit_code |-> exit_code]

\* What the plan model may ask for: todos to append, rows to remove.
PlanToolCalls ==
    {ToolCall("plan_upsert_todos", "", "", "", "", payload, <<>>, 0) :
        payload \in {<<Entry(NoId, "todo", TitlePlain)>>,
                     <<Entry(NoId, "todo", TitlePlain), Entry(NoId, "todo", TitleOther)>>}}
    \cup {ToolCall("plan_remove_ids", "", "", "", "", <<>>, <<"1">>, 0)}
PlanResponses == SeqsOver(PlanToolCalls, 0, 2)

FinishCalls ==
    {ToolCall("FinishSubtask", reason, "", "", "", <<>>, <<>>, 0) :
        reason \in {"", "max_react_turns"}}

\* The think model's calls that reach the plan file through the entry of the
\* plan skill, a skill that is only loaded, an entry that fails, no call.
PlanEntryCalls ==
    {ToolCall("run_skill_entry", "", "plan", "upsert", "", payload, <<>>, 0) :
        payload \in {<<Entry(NoId, "doing", TitleOther)>>,
                     <<Entry(NoId, "done", TitleOther)>>,
                     <<Entry(WithId(1), "doing", TitleOther)>>}}
    \cup {ToolCall("run_skill_entry", "", "plan", "remove", "", <<>>, <<"1">>, 0)}
OtherCalls ==
    {ToolCall("load_skill", "", "search", "", "", <<>>, <<>>, 0),
     ToolCall("run_skill_entry", "", "search", "", "", <<>>, <<>>, 1),
     ToolCall("", "", "", "", "", <<>>, <<>>, 0)}
LearnCalls == FinishCalls \cup PlanEntryCalls \cup OtherCalls

\* The think model's calls of the read skill.
ReadCalls ==
    {ToolCall("run_skill_entry", "", "read", op, doc, <<>>, <<>>, 0) :
        op \in {"ingest", "outline", "find", "read"}, doc \in Docs}
    \cup {ToolCall("run_skill_entry", "", "read", "ingest", "d1", <<>>, <<>>, 1),
          ToolCall("FinishSubtask", "", "", "", "", <<>>, <<>>, 0)}

\* The plan file of the workspace is absent, or holds the empty ledger, or
\* the ledger an earlier run of the graph left behind.
EarlierRunText ==
    FileText(render_plan_block(<<[status |-> "done", title |-> TitlePlain]>>).text)

LearnAtStart ==
    /\ plan_exists \in BOOLEAN
    /\ plan_text \in (IF plan_exists THEN {EmptyLedgerText, EarlierRunText} ELSE {<<>>})
    /\ last = NoCall
    /\ codec = NoCodec
    /\ FileManagerAtRest
    /\ learn = [NoLearn EXCEPT !.node = "validate_input"]

InitLearn == LearnAtStart
InitRead == LearnAtStart

NextLearn ==
    \/ \E task \in LearnTexts, workspace \in LearnTexts : ValidateInput(task, workspace)
    \/ BuildPlanContext
    \/ \E calls \in PlanResponses : PlanTask(calls)
    \/ SelectNextSubtask
    \/ \E call \in LearnCalls : ReactThink(call)
    \/ ReactAct
    \/ ReactShouldStop
    \/ \E summary \in LearnTexts : SummarizeSubtask(summary)
    \/ \E summary \in LearnTexts : FinalizeSummary(summary)

NextRead ==
    \/ \E task \in LearnTexts, workspace \in LearnTexts : ValidateInput(task, workspace)
    \/ BuildPlanContext
    \/ \E calls \in PlanResponses : PlanTask(calls)
    \/ SelectNextSubtask
    \/ \E call \in ReadCalls : ReactThink(call)
    \/ ReactAct
    \/ ReactShouldStop
    \/ \E summary \in LearnTexts : SummarizeSubtask(summary)
    \/ \E summary \in LearnTexts : FinalizeSummary(summary)

SpecLearn == InitLearn /\ [][NextLearn]_vars
SpecRead == InitRead /\ [][NextRead]_vars

\* ------------------------------------------------- reading the last call
\* The text mutate_plan_file read before the last call, and its ledger.
PreText == IF last.pre_exists THEN last.pre_text ELSE EmptyLedgerText
PreLedger == parse_plan(PreText)
PreCount == Len(PreLedger.items)

\* The ledger the plan file holds now.
Ledger == parse_plan_items(plan_text)

FileUnchanged == plan_exists = last.pre_exists /\ plan_text = last.pre_text

LegalEdges == {<<"todo", "doing">>, <<"doing", "done">>, <<"doing", "aborted">>}

\* Status and title of an upsert entry as the engine stores them.
Stored(entry) == [status |-> entry.status, title |-> Strip(entry.title)]

\* ---------------------------------------------------------------- claims

\* C1: after any sequence of successful upsert and remove mutations, starting
\* from an absent or empty plan file, the persisted ledger parses and its
\* item ids are exactly 1..N in ledger order.
C1_PersistedLedgerParses ==
    plan_exists =>
        /\ Ledger.ok
        /\ \A i \in 1..Len(Ledger.items) : Ledger.items[i].id = i

\* C2: for every item list of valid statuses and non-empty trimmed titles,
\* parse_plan(render_plan_block(items)) succeeds and returns the same statuses
\* and titles in the same order, the ids in the text being 1..N by position
\* whatever id the input items carry.
C2_ParseRenderRoundTrip ==
    codec.stage = "done" =>
        /\ codec.rendered.ok
        /\ codec.parsed.ok
        /\ Len(codec.parsed.items) = Len(codec.items)
        /\ \A i \in 1..Len(codec.items) :
              /\ codec.parsed.items[i].status = codec.items[i].status
              /\ codec.parsed.items[i].title = codec.items[i].title
        /\ LET withIds == parse_plan_items(codec.rendered.text)
           IN \A i \in 1..Len(withIds.items) : withIds.items[i].id = i

\* C3: for every text a successful mutation persists to the plan file,
\* render_plan_block(parse_plan(text)) equals text.
C3_RenderParseIsPersistedText ==
    (last.op # "none" /\ last.write) =>
        LET parsed == parse_plan(plan_text)
        IN /\ parsed.ok
           /\ render_plan_block(parsed.items).ok
           /\ render_plan_block(parsed.items).text = plan_text

\* C4: transition_plan_item_status changes an item's status only along
\* todo->doing, doing->done and doing->aborted, leaving every other item and
\* every title as it was; any other requested edge on an existing item fails
\* and leaves the plan file unchanged.
C4_TransitionOnlyAlongLegalEdges ==
    last.op = "transition" =>
        LET pre == parse_plan_items(last.pre_text)
            id == last.item_id
        IN /\ last.outcome = "ok" =>
                /\ last.pre_exists /\ pre.ok /\ id \in 1..Len(pre.items)
                /\ <<pre.items[id].status, last.to_status>> \in LegalEdges
                /\ Ledger.ok /\ Len(Ledger.items) = Len(pre.items)
                /\ \A i \in 1..Len(pre.items) :
                      /\ Ledger.items[i].title = pre.items[i].title
                      /\ Ledger.items[i].status =
                            IF i = id THEN last.to_status ELSE pre.items[i].status
           /\ (/\ last.pre_exists /\ pre.ok /\ id \in 1..Len(pre.items)
               /\ <<pre.items[id].status, last.to_status>> \notin LegalEdges)
                => last.outcome = "transition"
           /\ last.outcome # "ok" => FileUnchanged

\* A request on an item that is already done was refused.
C4_Witness ==
    /\ last.op = "transition"
    /\ last.outcome = "transition"
    /\ parse_plan_items(last.pre_text).items[last.item_id].status = "done"
    /\ last.to_status = "doing"

\* A todo item was moved to doing, beside an item that is done.
C4_WitnessMoved ==
    /\ last.op = "transition"
    /\ last.outcome = "ok"
    /\ last.to_status = "doing"
    /\ \E i \in 1..Len(Ledger.items) : Ledger.items[i].status = "done"

\* An upsert entry that changes the status of an existing item along an edge
\* the transition table does not hold.
OffTableEntry(entry) ==
    /\ entry.has_id
    /\ entry.id \in 1..PreCount
    /\ entry.status \in VALID_STATUS
    /\ PreLedger.items[entry.id].status # entry.status
    /\ <<PreLedger.items[entry.id].status, entry.status>> \notin LegalEdges

\* A payload mutate_plan_file has no reason to refuse: every entry has a valid
\* status and a non-empty title, and the ids it carries are distinct ids of
\* the ledger.
AcceptablePayload(payload) ==
    /\ payload # <<>>
    /\ \A k \in 1..Len(payload) :
          /\ payload[k].status \in VALID_STATUS
          /\ Strip(payload[k].title) # <<>>
          /\ payload[k].has_id => payload[k].id \in 1..PreCount
    /\ \A j, k \in 1..Len(payload) :
          (j # k /\ payload[j].has_id /\ payload[k].has_id)
              => payload[j].id # payload[k].id

\* C5 as claimed: the mutation engine re-validates the transition table, so an
\* upsert through mutate_plan_file with an id-bearing entry off the table
\* fails and leaves the ledger unchanged.
C5_EngineRevalidatesEdges ==
    (last.op = "upsert" /\ \E k \in 1..Len(last.payload) : OffTableEntry(last.payload[k]))
        => (last.outcome # "ok" /\ FileUnchanged)

\* C5 as amended: mutate_plan_file performs no check of the transition table.
\* An upsert on a parseable ledger with an acceptable payload succeeds
\* whatever edges its id-bearing entries take, and the ledger it renders holds
\* each such entry's status and title at the position the entry names.
C5_EngineAcceptsAnyEdge ==
    (last.op = "upsert" /\ PreLedger.ok /\ AcceptablePayload(last.payload)) =>
        /\ last.outcome = "ok"
        /\ \A k \in 1..Len(last.payload) :
              last.payload[k].has_id =>
                  last.items[last.payload[k].id] = Stored(last.payload[k])

\* A done item was put back to todo by an upsert.
C5_Witness ==
    /\ last.op = "upsert"
    /\ last.outcome = "ok"
    /\ \E k \in 1..Len(last.payload) :
          /\ OffTableEntry(last.payload[k])
          /\ PreLedger.items[last.payload[k].id].status = "done"
          /\ last.payload[k].status = "todo"
          /\ Ledger.ok
          /\ Ledger.items[last.payload[k].id].status = "todo"

\* The entries of a payload that carry no id, in input order.
RECURSIVE IdLess(_)
IdLess(payload) ==
    IF payload = <<>> THEN <<>>
    ELSE IF Head(payload).has_id THEN IdLess(Tail(payload))
    ELSE <<Head(payload)>> \o IdLess(Tail(payload))

\* C6 as claimed: every item an upsert appends has status todo in the
\* resulting ledger, and an id-less entry with another status is rejected,
\* the ledger unchanged.
C6_AppendedItemsAreTodo ==
    last.op \in {"upsert", "upsert_todos"} =>
        /\ (\E k \in 1..Len(last.payload) :
                ~last.payload[k].has_id /\ last.payload[k].status # "todo")
              => (last.outcome # "ok" /\ FileUnchanged)
        /\ last.outcome = "ok" =>
              \A i \in (PreCount + 1)..Len(last.items) : last.items[i].status = "todo"

\* C6 as amended: the tool plan_upsert_todos appends only todo items. It
\* refuses, leaving the plan file unchanged, a payload in which an entry
\* carries an id or a status other than todo; when it succeeds the ledger it
\* renders is the former ledger followed by one todo item per entry.
C6_ToolAppendsOnlyTodo ==
    last.op = "upsert_todos" =>
        /\ (\E k \in 1..Len(last.payload) :
                last.payload[k].has_id \/ last.payload[k].status # "todo")
              => (last.outcome = "validation" /\ FileUnchanged)
        /\ last.outcome # "ok" => FileUnchanged
        /\ last.outcome = "ok" =>
              /\ Len(last.items) = PreCount + Len(last.payload)
              /\ \A i \in 1..PreCount : last.items[i] = PreLedger.items[i]
              /\ \A k \in 1..Len(last.payload) :
                    /\ last.items[PreCount + k].status = "todo"
                    /\ last.items[PreCount + k].title = Strip(last.payload[k].title)

\* The tool refused a payload whose entry asks for done, on a ledger that
\* already holds an item.
C6_Witness ==
    /\ last.op = "upsert_todos"
    /\ last.outcome = "validation"
    /\ PreCount >= 1
    /\ Len(last.payload) = 1
    /\ ~last.payload[1].has_id
    /\ last.payload[1].status = "done"
    /\ Strip(last.payload[1].title) # <<>>

\* Whether some entry of the payload carries the id i, and the entry that does.
Names(payload, i) == \E k \in 1..Len(payload) : payload[k].has_id /\ payload[k].id = i
EntryNaming(payload, i) ==
    payload[CHOOSE k \in 1..Len(payload) : payload[k].has_id /\ payload[k].id = i]

\* C7: upserting a payload with N id-less entries onto an M-item ledger yields
\* exactly M+N items: the id-less entries follow the original M items in input
\* order, and each of the first M items is unchanged unless an id-bearing
\* entry named its position, which replaces its status and title only.
C7_UpsertGrowth ==
    (last.op = "upsert" /\ last.outcome = "ok") =>
        LET appended == IdLess(last.payload)
        IN /\ Len(last.items) = PreCount + Len(appended)
           /\ \A k \in 1..Len(appended) :
                 last.items[PreCount + k] = Stored(appended[k])
           /\ \A i \in 1..PreCount :
                 last.items[i] = IF Names(last.payload, i)
                                 THEN Stored(EntryNaming(last.payload, i))
                                 ELSE PreLedger.items[i]

\* C8: an upsert call that supplies an id greater than the number of items
\* the ledger holds when the call is made fails with a range error, wherever
\* that entry stands in the payload, and the persisted ledger is unchanged.
C8_IdBeyondCountIsRangeError ==
    (/\ last.op = "upsert"
     /\ PreLedger.ok
     /\ \E k \in 1..Len(last.payload) :
           last.payload[k].has_id /\ last.payload[k].id > PreCount)
        => (last.outcome # "ok" /\ FileUnchanged)

\* Two entries of the payload carry the same id.
HasDuplicateId(payload) ==
    \E j, k \in 1..Len(payload) :
        j # k /\ payload[j].has_id /\ payload[k].has_id /\ payload[j].id = payload[k].id

\* Every entry taken alone passes _parse_items_json.
WellFormedEntries(payload) ==
    \A k \in 1..Len(payload) :
        /\ payload[k].status \in VALID_STATUS
        /\ Strip(payload[k].title) # <<>>
        /\ payload[k].has_id => payload[k].id > 0

\* C9: an upsert call in which two entries carry the same id fails before any
\* entry is applied and leaves the persisted ledger unchanged; the failure is
\* the conflict error when the ledger parses and the entries are otherwise
\* well formed.
C9_DuplicateIdIsConflict ==
    (last.op = "upsert" /\ HasDuplicateId(last.payload)) =>
        /\ last.outcome # "ok"
        /\ FileUnchanged
        /\ (PreLedger.ok /\ WellFormedEntries(last.payload)) => last.outcome = "conflict"

\* A payload naming an existing item twice, with two statuses, was refused.
C9_Witness ==
    /\ last.op = "upsert"
    /\ last.outcome = "conflict"
    /\ Len(last.payload) = 2
    /\ last.payload[1].id = 1 /\ last.payload[2].id = 1
    /\ last.payload[1].status # last.payload[2].status
    /\ PreCount >= 1

\* The items of a ledger whose positions, counted from pos, are not in S.
RECURSIVE Keeping(_, _, _)
Keeping(items, S, pos) ==
    IF items = <<>> THEN <<>>
    ELSE IF pos \in S THEN Keeping(Tail(items), S, pos + 1)
    ELSE <<Head(items)>> \o Keeping(Tail(items), S, pos + 1)

\* The ids a remove call lists.
ListedIds == {StrToInt(last.parts[k]) : k \in 1..Len(last.parts)}

\* C10: removing a set S of ids from an N-item ledger yields exactly the items
\* whose former positions are not in S, in their former order and reindexed
\* 1..N-|S|, whatever order the ids are listed in.
C10_RemoveThenReindex ==
    (/\ last.op \in {"remove", "remove_ids"}
     /\ last.outcome = "ok"
     /\ \A k \in 1..Len(last.parts) : StrToInt(last.parts[k]) >= 1) =>
        /\ ListedIds \subseteq 1..PreCount
        /\ last.items = Keeping(PreLedger.items, ListedIds, 1)
        /\ Ledger.ok
        /\ Len(Ledger.items) = PreCount - Cardinality(ListedIds)
        /\ \A i \in 1..Len(Ledger.items) :
              /\ Ledger.items[i].id = i
              /\ Ledger.items[i].status = last.items[i].status
              /\ Ledger.items[i].title = last.items[i].title

\* Ids 4 and 2, listed in that order, were removed from a ledger of five
\* items: three are left, the former item 5 is now item 3 and the former
\* item 1 is still item 1.
C10_Witness ==
    /\ last.op = "remove"
    /\ last.outcome = "ok"
    /\ last.parts = <<"4", "2">>
    /\ PreCount = 5
    /\ Len(Ledger.items) = 3
    /\ Ledger.items[3].id = 3
    /\ Ledger.items[3].title = PreLedger.items[5].title
    /\ Ledger.items[1].title = PreLedger.items[1].title


\* C11: a remove call in which an id exceeds the number of items the ledger
\* holds fails and the persisted ledger is unchanged, even when other ids of
\* the call are in range; the failure is the range error when the ledger
\* parses and the id list is well formed.
C11_RemoveBeyondCountIsRangeError ==
    (/\ last.op \in {"remove", "remove_ids"}
     /\ \E k \in 1..Len(last.parts) :
           IsDigit(last.parts[k]) /\ StrToInt(last.parts[k]) > PreCount) =>
        /\ last.outcome # "ok"
        /\ FileUnchanged
        /\ (PreLedger.ok /\ _parse_remove_ids(last.parts).err = "")
              => last.outcome = "range"

\* Ids 1 and 5 were listed against a ledger of three items: the call failed
\* with the range error and item 1 is still there.
C11_Witness ==
    /\ last.op = "remove"
    /\ last.parts = <<"1", "5">>
    /\ PreCount = 3
    /\ last.outcome = "range"
    /\ FileUnchanged
    /\ Len(Ledger.items) = 3

\* ------------------------------------------- reading the last file call
\* The file system is as it was before the last FileManager call.
FsUnchanged == files = fm.pre_files /\ dirs = fm.pre_dirs

\* The valid files the last apply_edit_blocks call listed.
PreValidFiles == list_files_in_workspace(fm.pre_files)

\* A SEARCH marker that opens a block: the first of the text, or the first
\* after a closing line.
OpensBlock(lines, i) ==
    /\ IsSearchMark(lines[i])
    /\ \/ \A k \in 1..(i - 1) : ~IsSearchMark(lines[k])
       \/ \E r \in 1..(i - 1) :
             /\ IsReplaceMark(lines[r])
             /\ \A k \in (r + 1)..(i - 1) :
                   ~IsSearchMark(lines[k]) /\ ~IsDividerMark(lines[k])

\* The text is malformed: a SEARCH marker that opens a block has no divider
\* line after it, or no closing line after the divider, or it is the first
\* and no line before it names a file.
Malformed(text) ==
    LET lines == splitlines_keepends(text)
        marks == {i \in 1..Len(lines) : OpensBlock(lines, i)}
    IN \/ \E i \in marks :
             \A d \in (i + 1)..Len(lines) :
                 IsDividerMark(lines[d]) =>
                     \A r \in (d + 1)..Len(lines) :
                         ~IsReplaceMark(lines[r]) /\ ~IsDividerMark(lines[r])
       \/ /\ marks # {}
          /\ \A k \in 1..(SetMin(marks) - 1) : Strip(lines[k]) \in {<<>>, Dots}

\* C12: when the instruction text is malformed, apply_edit_blocks raises the
\* parse error and no file or directory is created or modified, also when
\* well-formed blocks stand before the malformed one.
C12_ParseErrorAppliesNothing ==
    (fm.op = "apply_edit_blocks" /\ Malformed(fm.text)) =>
        (fm.outcome = "parse" /\ FsUnchanged)

\* The text whose second block has no divider was applied to a workspace
\* where a.py held the line the first, well-formed block searches for.
C12_Witness ==
    /\ fm.op = "apply_edit_blocks"
    /\ fm.text = NoDividerAtTheEnd
    /\ <<Chars("w"), Chars("a.py")>> \in DOMAIN fm.pre_files
    /\ fm.pre_files[<<Chars("w"), Chars("a.py")>>] = <<"A", NL>>
    /\ fm.outcome = "parse"
    /\ files[<<Chars("w"), Chars("a.py")>>] = <<"A", NL>>

\* What edit_file_in_workspace leaves after the first n of the blocks, each
\* applied to what the block before it left.
RECURSIVE AfterBlocks(_, _)
AfterBlocks(blocks, n) ==
    IF n = 0 THEN Done("ok", fm.pre_files, fm.pre_dirs)
    ELSE LET before == AfterBlocks(blocks, n - 1)
         IN edit_file_in_workspace(before.files, before.dirs, blocks[n].path,
                                   blocks[n].search, blocks[n].replace)

\* C13: apply_edit_blocks applies the blocks in the order of the text, each
\* to what the block before it persisted; when block k fails with the match
\* error the blocks before k stay applied, no file is changed by block k and
\* no block after k is applied.
C13_BlocksInOrderUntilMatchError ==
    (fm.op = "apply_edit_blocks" /\ fm.outcome \in {"ok", "match"}) =>
        LET blocks == parse_edit_blocks(fm.text, PreValidFiles).blocks
            applied == Len(fm.outcomes)
        IN /\ applied <= Len(blocks)
           /\ \A j \in 1..applied : AfterBlocks(blocks, j).outcome = "ok"
           /\ files = AfterBlocks(blocks, applied).files
           /\ IF fm.outcome = "ok" THEN applied = Len(blocks)
              ELSE /\ applied < Len(blocks)
                   /\ AfterBlocks(blocks, applied + 1).outcome = "match"

\* The text of four blocks was applied where a.py held "A": block 2 was
\* matched against what block 1 wrote, block 3 failed on the absent d/n.py,
\* block 4 was not applied: a.py holds "C" and d/n.py does not exist.
C13_Witness ==
    /\ fm.op = "apply_edit_blocks"
    /\ fm.text = FailingInTheMiddle
    /\ <<Chars("w"), Chars("a.py")>> \in DOMAIN fm.pre_files
    /\ fm.pre_files[<<Chars("w"), Chars("a.py")>>] = <<"A", NL>>
    /\ fm.outcome = "match"
    /\ Len(fm.outcomes) = 2
    /\ files[<<Chars("w"), Chars("a.py")>>] = <<"C", NL>>
    /\ <<Chars("w"), <<"d">>, Chars("n.py")>> \notin DOMAIN files

\* The file name the claim gives the block whose SEARCH marker follows the
\* given lines: the valid file a candidate line resolves to, exactly, by
\* base name or by similarity; else the file name resolved last.
ClaimedFilename(lines, valid_files, current_filename) ==
    LET chosen == _choose_filename(lines, valid_files)
    IN IF \E v \in 1..Len(valid_files) : valid_files[v] = chosen
       THEN chosen ELSE current_filename

\* The paths of the blocks of a text as the claim resolves them, or the
\* parse error.
RECURSIVE ClaimedPaths(_, _, _, _, _)
ClaimedPaths(lines, i, current_filename, paths, valid_files) ==
    IF i > Len(lines) THEN [err |-> "", paths |-> paths]
    ELSE IF ~IsSearchMark(lines[i])
    THEN ClaimedPaths(lines, i + 1, current_filename, paths, valid_files)
    ELSE LET lo == IF i - 3 > 1 THEN i - 3 ELSE 1
             filename == ClaimedFilename(SubSeq(lines, lo, i - 1), valid_files,
                                         current_filename)
             d == FirstDivider(lines, i + 1)
             r == FirstClose(lines, d + 1)
         IN IF filename = <<>> \/ d > Len(lines) \/ r > Len(lines)
            THEN [err |-> "parse", paths |-> <<>>]
            ELSE ClaimedPaths(lines, r + 1, filename, Append(paths, filename),
                              valid_files)

\* C14: the path of every SEARCH block is the valid file name a candidate
\* line equals, else the valid file name whose base name a candidate equals,
\* else the closest valid file name of similarity >= 0.8, else the file name
\* resolved last in the same text, else the text is a parse error; a
\* candidate line that matches no valid file name never becomes the path.
C14_PathResolutionPriority ==
    scan.stage = "done" =>
        LET claimed == ClaimedPaths(splitlines_keepends(scan.text), 1, <<>>, <<>>,
                                    scan.valid_files)
        IN /\ scan.result.err = claimed.err
           /\ Len(scan.result.blocks) = Len(claimed.paths)
           /\ \A k \in 1..Len(claimed.paths) :
                 scan.result.blocks[k].path = claimed.paths[k]

\* ------------------------------- reading the apply_search_replace call
\* The normalized search and replace texts of the call and the lines
\* apply_search_replace works on.
NormalSearch == _strip_wrapping(patch.search, patch.path)
NormalReplace == _strip_wrapping(patch.replace, patch.path)
WholeLines == splitlines_keepends(_ensure_final_newline(patch.content))
SearchLines == splitlines_keepends(_ensure_final_newline(NormalSearch))
ReplaceLines == splitlines_keepends(_ensure_final_newline(NormalReplace))

\* The places where the search lines stand in the content, line for line.
Windows ==
    {idx \in 1..(Len(WholeLines) - Len(SearchLines) + 1) :
        \A j \in 1..Len(SearchLines) : WholeLines[idx + j - 1] = SearchLines[j]}

\* The result of the call is the content with its first window replaced by
\* the replace lines and every line outside the window as it was.
FirstWindowReplaced ==
    LET idx == SetMin(Windows)
        out == splitlines_keepends(patch.result.text)
        n == Len(SearchLines)
        m == Len(ReplaceLines)
    IN /\ patch.result.err = ""
       /\ Len(out) = Len(WholeLines) - n + m
       /\ \A k \in 1..(idx - 1) : out[k] = WholeLines[k]
       /\ \A k \in 1..m : out[idx + k - 1] = ReplaceLines[k]
       /\ \A k \in (idx + n)..Len(WholeLines) : out[k - n + m] = WholeLines[k]

\* C15 as claimed: when the normalized search lines stand in the content as
\* a contiguous window of identical lines, whitespace included,
\* apply_search_replace returns the content with the first such window
\* replaced by the replace lines and every line outside it unchanged.
C15_AnyExactWindowReplaced ==
    (patch.stage = "done" /\ Windows # {}) => FirstWindowReplaced

\* C15 as amended: the same, for search lines that are not all blank.
C15_FirstExactWindowReplaced ==
    (patch.stage = "done" /\ Strip(NormalSearch) # <<>> /\ Windows # {}) =>
        FirstWindowReplaced

\* The line "a" stands twice in the content; the first was replaced by "X".
C15_Witness ==
    /\ patch.stage = "done"
    /\ patch.content = <<"a", NL, "b", NL, "a", NL>>
    /\ patch.search = <<"a", NL>>
    /\ patch.replace = <<"X", NL>>
    /\ patch.result = [err |-> "", text |-> <<"X", NL, "b", NL, "a", NL>>]

\* The edit in progress is ellipsis-segmented and its separators differ: the
\* target holds content, no window of lines took the search, the search and
\* the replace text split into the same number (above one) of segments, and
\* a separator of the search is not the separator of the replace text at
\* its position.
SeparatorsDiffer ==
    LET r == resolve_path(fm.path)
        whole == _ensure_final_newline(fm.pre_files[r.path])
        search == _ensure_final_newline(_strip_wrapping(fm.search, fm.path))
        replace == _ensure_final_newline(_strip_wrapping(fm.replace, fm.path))
        lines == splitlines_keepends(search)
        search_parts == _split_by_dots(search)
        replace_parts == _split_by_dots(replace)
    IN /\ fm.op = "edit"
       /\ r.ok
       /\ r.path \in DOMAIN fm.pre_files
       /\ Strip(_strip_wrapping(fm.search, fm.path)) # <<>>
       /\ ~TryLines(splitlines_keepends(whole), lines,
                    splitlines_keepends(replace)).found
       /\ ~(Len(lines) > 2 /\ Strip(lines[1]) = <<>>)
       /\ Len(search_parts) = Len(replace_parts)
       /\ Len(search_parts) > 1
       /\ \E i \in 1..Len(search_parts) :
              i % 2 = 0 /\ search_parts[i] # replace_parts[i]

\* C16: an ellipsis-segmented edit whose separators differ between the
\* search and the replace text fails with the match error, and the target
\* file keeps its content: nothing is written.
C16_SeparatorMismatchIsMatchError ==
    SeparatorsDiffer => (fm.outcome = "match" /\ FsUnchanged)

\* a.py held "A" when it was edited with the search "A", "..." and the
\* replace text "B", " ...": the match error, and a.py still holds "A".
C16_Witness ==
    /\ SeparatorsDiffer
    /\ fm.path = Chars("a.py")
    /\ fm.pre_files[<<Chars("w"), Chars("a.py")>>] = <<"A", NL>>
    /\ fm.outcome = "match"
    /\ files[<<Chars("w"), Chars("a.py")>>] = <<"A", NL>>

\* C17: with an empty or whitespace-only search, apply_search_replace
\* returns the content, ended by a line break when it is not empty, followed
\* by the replace text, so that the replace text starts on a line of its
\* own; the line break ending the replace text may be kept or left out.
C17_AppendStartsOnItsOwnLine ==
    (patch.stage = "done" /\ Strip(NormalSearch) = <<>>) =>
        /\ patch.result.err = ""
        /\ patch.result.text \in
               {_ensure_final_newline(patch.content) \o NormalReplace,
                _ensure_final_newline(patch.content) \o RStripOf(NormalReplace, {NL})}

\* The edit in progress names a path inside the workspace where nothing
\* existed, below directories that exist or can be made.
EditOfAbsentPath ==
    LET r == resolve_path(fm.path)
    IN /\ fm.op = "edit"
       /\ r.ok
       /\ ~Exists(fm.pre_files, fm.pre_dirs, r.path)
       /\ \A a \in Ancestors(r.path) : a \notin DOMAIN fm.pre_files

\* C18: editing a path that does not exist with a search that is not blank
\* fails with the match error and creates no file and no directory.
C18_AbsentTargetLeavesNoTrace ==
    (EditOfAbsentPath /\ Strip(fm.search) # <<>>) =>
        (fm.outcome = "match" /\ FsUnchanged)

\* The file the edit in progress names, and the files that stood before it.
EditTarget == resolve_path(fm.path).path
OtherFilesKept ==
    /\ DOMAIN files = DOMAIN fm.pre_files \cup {EditTarget}
    /\ \A p \in DOMAIN fm.pre_files : files[p] = fm.pre_files[p]

\* C19 as claimed: editing a path that does not exist with an empty or
\* whitespace-only search creates the file, and its content is exactly the
\* replace text.
C19_CreatedContentIsReplaceText ==
    (EditOfAbsentPath /\ Strip(fm.search) = <<>>) =>
        /\ fm.outcome = "ok"
        /\ OtherFilesKept
        /\ files[EditTarget] = fm.replace

\* C19 as amended: the file is created and its content is the replace text
\* normalized: without its first line when that line ends with the name of
\* the file, without the fence lines around it, and ended by a line break
\* when it is not empty.
C19_CreatedContentIsNormalizedReplaceText ==
    (EditOfAbsentPath /\ Strip(fm.search) = <<>>) =>
        /\ fm.outcome = "ok"
        /\ OtherFilesKept
        /\ files[EditTarget] = _strip_wrapping(fm.replace, fm.path)
        /\ fm.replace \in {<<"X">>, <<"X", NL>>} => files[EditTarget] = <<"X", NL>>
        /\ (fm.replace = Chars("a.py") \o <<NL, "X", NL, NL>>
               /\ PathName(fm.path) = Chars("a.py"))
               => files[EditTarget] = <<"X", NL>>

\* d/n.py did not exist when it was edited with an empty search and the
\* replace text "X": it was created with the content "X" and a line break.
C19_Witness ==
    /\ EditOfAbsentPath
    /\ fm.path = Chars("d/n.py")
    /\ fm.search = <<>>
    /\ fm.replace = <<"X">>
    /\ fm.outcome = "ok"
    /\ files[EditTarget] = <<"X", NL>>

\* What lies outside the workspace root is what lay there when the
\* FileManager was made.
OutsideUntouched ==
    /\ \A p \in DOMAIN files :
           ~IsRelativeTo(p, Root) => (p \in DOMAIN InitialFiles /\ files[p] = InitialFiles[p])
    /\ \A p \in DOMAIN InitialFiles : p \in DOMAIN files
    /\ \A d \in dirs : ~IsRelativeTo(d, Root) => d \in InitialDirs

\* C20: whatever create, edit and apply-edit-blocks calls were made, no file
\* or directory outside the workspace root was created or modified; a call
\* whose path resolves outside the root raised the workspace violation and
\* left the filesystem as it was.
C20_NothingOutsideTheRootIsTouched ==
    /\ OutsideUntouched
    /\ (fm.op \in {"create", "edit"} /\ fm.path \in EscapingPaths) =>
           (fm.outcome = "violation" /\ FsUnchanged)
    /\ (fm.op = "apply_edit_blocks"
           /\ fm.text = Block(Chars("../o.py"), <<>>, <<"X", NL>>)) =>
           (fm.outcome = "violation" /\ FsUnchanged)

\* The file ../o.py, which exists outside the root, was created over with
\* overwrite set, in a workspace that already held a file: the workspace
\* violation, and the outside file holds what it held.
C20_Witness ==
    /\ fm.op = "create"
    /\ fm.path = Chars("../o.py")
    /\ fm.overwrite
    /\ fm.content = <<"A">>
    /\ <<Chars("w"), Chars("a.py")>> \in DOMAIN fm.pre_files
    /\ fm.outcome = "violation"
    /\ files[OutsideFile] = <<"A", NL>>

\* ------------------------------------ reading the parse_edit_blocks call
ScanLines == splitlines_keepends(scan.text)

\* The lines of the text that are REPLACE markers.
CloseMarks == {k \in 1..Len(ScanLines) : IsReplaceMark(ScanLines[k])}

\* A SEARCH marker of the text has no REPLACE marker after it: whatever
\* block is open at that marker or opened by it is never closed.
NeverClosed ==
    \E i \in 1..Len(ScanLines) :
        IsSearchMark(ScanLines[i]) /\ \A r \in CloseMarks : r < i

\* C21: parse_edit_blocks emits a block only for a SEARCH marker, a divider
\* and a REPLACE marker met in this order, so it emits no more blocks than
\* the text has REPLACE markers; a text in which a SEARCH marker is followed
\* by no REPLACE marker is a parse error: a second divider closes no block.
C21_BlockNeedsItsCloseMarker ==
    scan.stage = "done" =>
        /\ Len(scan.result.blocks) <= Cardinality(CloseMarks)
        /\ NeverClosed => scan.result.err = "parse"

\* The search lines without their blank first line, when apply_search_replace
\* retries with them; <<>> when it does not.
ShortSearchLines ==
    IF Len(SearchLines) > 2 /\ Strip(SearchLines[1]) = <<>> THEN Tail(SearchLines)
    ELSE <<>>

\* The strategies in the order of the claim: the exact match on the search
\* lines and on the search lines without their blank first line, then the
\* indentation-flexible match on both forms, then the ellipsis match.
StrategiesInClaimedOrder ==
    LET FirstOf(exact, short_exact, indent, short_indent, dots) ==
            IF exact.found THEN [err |-> "", text |-> exact.text]
            ELSE IF short_exact.found THEN [err |-> "", text |-> short_exact.text]
            ELSE IF indent.found THEN [err |-> "", text |-> indent.text]
            ELSE IF short_indent.found THEN [err |-> "", text |-> short_indent.text]
            ELSE IF dots.err # "" THEN [err |-> dots.err, text |-> <<>>]
            ELSE IF dots.found THEN [err |-> "", text |-> dots.text]
            ELSE [err |-> "match", text |-> <<>>]
    IN FirstOf(_exact_replace(WholeLines, SearchLines, ReplaceLines),
               _exact_replace(WholeLines, ShortSearchLines, ReplaceLines),
               _indent_flexible_replace(WholeLines, SearchLines, ReplaceLines),
               _indent_flexible_replace(WholeLines, ShortSearchLines, ReplaceLines),
               _replace_with_dots(_ensure_final_newline(patch.content),
                                  _ensure_final_newline(NormalSearch),
                                  _ensure_final_newline(NormalReplace)))

\* C22: for a search that is not blank, the result of apply_search_replace
\* is that of the first strategy that succeeds in the order exact match (on
\* the search lines, then without their blank first line), indentation-
\* flexible match, ellipsis match: the indentation-flexible match gives the
\* result only when neither form of the search lines has an exact window.
C22_ExactBeforeIndentationFlexible ==
    (patch.stage = "done" /\ Strip(NormalSearch) # <<>>) =>
        patch.result = StrategiesInClaimedOrder

\* The search and replace lines as _indent_flexible_replace compares and
\* splices them: without their common indentation when all of them have some.
CommonIndent ==
    LET leading == {Indent((SearchLines \o ReplaceLines)[i]) :
                        i \in {j \in 1..Len(SearchLines \o ReplaceLines) :
                                    Strip((SearchLines \o ReplaceLines)[j]) # <<>>}}
    IN IF leading # {} /\ SetMin(leading) > 0 THEN SetMin(leading) ELSE 0
OutdentedSearch ==
    [i \in 1..Len(SearchLines) |->
        IF Strip(SearchLines[i]) # <<>> THEN SliceFrom(SearchLines[i], CommonIndent)
        ELSE SearchLines[i]]
OutdentedReplace ==
    [i \in 1..Len(ReplaceLines) |->
        IF Strip(ReplaceLines[i]) # <<>> THEN SliceFrom(ReplaceLines[i], CommonIndent)
        ELSE ReplaceLines[i]]

\* The call got its result from the indentation-flexible match of the search
\* lines: they have no exact window and the strategy accepted one.
IndentFlexibleAccepted ==
    /\ patch.stage = "done"
    /\ Strip(NormalSearch) # <<>>
    /\ ~_exact_replace(WholeLines, SearchLines, ReplaceLines).found
    /\ _indent_flexible_replace(WholeLines, SearchLines, ReplaceLines).found

\* The result is the content with the window at idx replaced by the replace
\* lines, prefix before each that is not blank, where every line of the
\* window that is not blank is prefix followed by its search line.
SplicedWithPrefix(idx, prefix) ==
    /\ Strip(prefix) = <<>>
    /\ \A j \in 1..Len(SearchLines) :
          Strip(WholeLines[idx + j - 1]) # <<>> =>
              WholeLines[idx + j - 1] = prefix \o OutdentedSearch[j]
    /\ patch.result.text =
          Concat(SubSeq(WholeLines, 1, idx - 1)
                 \o [i \in 1..Len(ReplaceLines) |->
                        IF Strip(OutdentedReplace[i]) # <<>>
                        THEN prefix \o OutdentedReplace[i] ELSE OutdentedReplace[i]]
                 \o SubSeq(WholeLines, idx + Len(SearchLines), Len(WholeLines)))

\* C23: when the indentation-flexible match accepts a window, every line
\* of the window that is not blank is one shared whitespace prefix followed
\* by its outdented search line, and the result has the replace lines in the
\* place of the window, that prefix before each one that is not blank.
C23_AcceptedWindowSharesOnePrefix ==
    IndentFlexibleAccepted =>
        \E idx \in 1..(Len(WholeLines) - Len(SearchLines) + 1) :
            \E k \in 0..Len(WholeLines[idx]) :
                SplicedWithPrefix(idx, SubSeq(WholeLines[idx], 1, k))

\* The texts of the edit in progress as _replace_with_dots takes them.
DotsWhole == _ensure_final_newline(fm.pre_files[resolve_path(fm.path).path])
DotsSearchParts ==
    _split_by_dots(_ensure_final_newline(_strip_wrapping(fm.search, fm.path)))
DotsReplaceParts ==
    _split_by_dots(_ensure_final_newline(_strip_wrapping(fm.replace, fm.path)))

\* The edit in progress is ellipsis-segmented: the target holds content, no
\* window of lines took the search, and the search and the replace text split
\* into the same segments (more than one) around the same separators.
EllipsisSegmented ==
    LET r == resolve_path(fm.path)
        lines == splitlines_keepends(
                     _ensure_final_newline(_strip_wrapping(fm.search, fm.path)))
    IN /\ fm.op = "edit"
       /\ r.ok
       /\ r.path \in DOMAIN fm.pre_files
       /\ Strip(_strip_wrapping(fm.search, fm.path)) # <<>>
       /\ ~TryLines(splitlines_keepends(DotsWhole), lines,
                    splitlines_keepends(
                        _ensure_final_newline(_strip_wrapping(fm.replace, fm.path)))).found
       /\ ~(Len(lines) > 2 /\ Strip(lines[1]) = <<>>)
       /\ Len(DotsSearchParts) = Len(DotsReplaceParts)
       /\ Len(DotsSearchParts) > 1
       /\ \A i \in 1..Len(DotsSearchParts) :
              i % 2 = 0 => DotsSearchParts[i] = DotsReplaceParts[i]

\* The content after the segments up to position i have been put in: a
\* search segment that is not empty gives its first occurrence, if it has
\* one, to its replace segment; the replace segment of an empty search
\* segment is appended.
RECURSIVE PartlyUpdated(_)
PartlyUpdated(i) ==
    IF i < 1 THEN DotsWhole
    ELSE LET before == PartlyUpdated(i - 2)
             src == DotsSearchParts[i]
             dst == DotsReplaceParts[i]
             p == FindSub(before, src, 1)
         IN IF src = <<>>
            THEN (IF dst = <<>> THEN before ELSE _ensure_final_newline(before) \o dst)
            ELSE IF p = 0 THEN before
            ELSE SubSeq(before, 1, p - 1) \o dst \o SubSeq(before, p + Len(src), Len(before))

\* Every search segment that is not empty occurs exactly once in the content
\* as the segments before it left it.
EverySegmentOnce ==
    \A i \in 1..Len(DotsSearchParts) :
        (i % 2 = 1 /\ DotsSearchParts[i] # <<>>) =>
            CountSub(PartlyUpdated(i - 2), DotsSearchParts[i], 1) = 1

\* C24: in an ellipsis-segmented edit, when every search segment that is
\* not empty occurs exactly once in the partly updated content the target
\* holds the content with every segment replaced; when a segment occurs no
\* time or more than once the edit fails with the match error and the file
\* system is as before: no replacement made for an earlier segment is kept.
C24_SegmentsOccurOnceOrNothingIsKept ==
    EllipsisSegmented =>
        IF EverySegmentOnce
        THEN /\ fm.outcome = "ok"
             /\ files[resolve_path(fm.path).path] = PartlyUpdated(Len(DotsSearchParts))
        ELSE fm.outcome = "match" /\ FsUnchanged

\* a.py held "A", "X" when it was edited with the search "A", "...", "X" and
\* the replace text "X", "...", "B": the first segment is replaced, the second
\* then occurs twice, the edit fails and a.py still holds "A", "X".
C24_Witness ==
    /\ EllipsisSegmented
    /\ fm.path = Chars("a.py")
    /\ fm.pre_files[<<Chars("w"), Chars("a.py")>>] = <<"A", NL, "X", NL>>
    /\ PartlyUpdated(1) = <<"X", NL, "X", NL>>
    /\ ~EverySegmentOnce
    /\ fm.outcome = "match"
    /\ files[<<Chars("w"), Chars("a.py")>>] = <<"A", NL, "X", NL>>

\* The id token denotes a positive integer.
DenotesPositive(raw) == IsDigit(raw) /\ StrToInt(raw) >= 1

\* C25: a remove call that lists an id token which does not denote a
\* positive integer ("0", "00", a negative or a non-numeric token) is rejected
\* with a validation error (or with the duplicate error of an earlier token)
\* and the persisted ledger is unchanged: no item is deleted for the token.
C25_RemoveIdsArePositive ==
    (/\ last.op \in {"remove", "remove_ids"}
     /\ \E k \in 1..Len(last.parts) : ~DenotesPositive(last.parts[k])) =>
        /\ last.outcome \in {"validation", "conflict"}
        /\ FileUnchanged

\* ------------------------------------------------ reading the learn graph
\* The subtask ids of the summaries the graph holds.
SummaryIds == {learn.subtask_summaries[k] : k \in 1..Len(learn.subtask_summaries)}

\* C26: when the learn graph has finished (done is True), every plan item
\* of its state is done or aborted, and there is exactly one subtask summary
\* per plan item: as many summaries as items, their subtask ids being the
\* ids of the items.
C26_FinishedPlanIsSummarised ==
    learn.done =>
        /\ \A i \in 1..Len(learn.plan_items) :
              learn.plan_items[i].status \in {"done", "aborted"}
        /\ Len(learn.subtask_summaries) = Len(learn.plan_items)
        /\ SummaryIds = {learn.plan_items[i].id : i \in 1..Len(learn.plan_items)}

\* C27: the react loop of a subtask performs at most
\* max_react_turns_per_subtask think/act turns, and the plan item of the
\* subtask is marked aborted exactly when the loop ended because the turn
\* limit was reached, done when it ended because the model called
\* FinishSubtask.
C27_AbortedExactlyAtTheTurnLimit ==
    /\ learn.react_turn <= max_react_turns_per_subtask
    /\ learn.marked.status # "" =>
          /\ learn.marked.status = "aborted" <=> learn.ended = "limit"
          /\ learn.marked.status = "done" <=> learn.ended = "finish"

\* The think model's call of the read skill with op on doc has just run.
ReadRan(op, doc) ==
    /\ learn.node = "react_should_stop"
    /\ learn.call.tool = "run_skill_entry"
    /\ learn.call.skill = "read"
    /\ learn.call.op = op
    /\ learn.call.doc = doc

DoingItems ==
    {i \in 1..Len(load_plan_items_from_file(plan_exists, plan_text).items) :
        load_plan_items_from_file(plan_exists, plan_text).items[i].status = "doing"}

\* C29: at every point of the learn loop at most one item of the plan is
\* doing, in the plan file and in the plan items of the graph state.
C29_AtMostOneItemDoing ==
    /\ Cardinality(DoingItems) <= 1
    /\ Cardinality({i \in 1..Len(learn.plan_items) :
                        learn.plan_items[i].status = "doing"}) <= 1

\* C30: whenever summarize_subtask has marked a plan item done or aborted,
\* that item is the one select_next_subtask marked doing for the subtask: it
\* has the same id and the same title, whatever upserts and removes the tools
\* of the react loop made on the plan file in between.
C30_MarkedItemIsThePickedItem ==
    learn.marked.status # "" =>
        /\ learn.marked.id = learn.picked.id
        /\ learn.marked.title = learn.picked.title
====
